---------------------------- MODULE Spec2Model ----------------------------
(***************************************************************************)
(* Verification model of the interactive machine-learning widgets:         *)
(*   - K-Means widget            (src/unnamed/part_004)                    *)
(*   - Logistic regression       (src/LogisticRegression/script.js)        *)
(*   - Decision tree             (src/DecisionTree/script.js)              *)
(*   - SVM / simplified SMO      (src/unnamed/part_002)                    *)
(* Every widget owns one global `state` object; it is one variable here.   *)
(* A specification explores one widget and leaves the others as they are   *)
(* before their DOMContentLoaded handler has run.                          *)
(***************************************************************************)
EXTENDS Integers, Sequences, FiniteSets, TLC

VARIABLES km, kmPc, kmStep, kmCycle, lr, lrPc, lrRun, lrCall, dt, dtPc, dtCall,
          svm, svPc, svTimers, svRun, svLast, svBy,
          rg, rgPc, rgRun, rgLast,
          lin, linPc, linRun, linLast,
          pca,
          gd,
          ql, qlLast

kmVars == <<km, kmPc, kmStep, kmCycle>>
lrVars == <<lr, lrPc, lrRun, lrCall>>
dtVars == <<dt, dtPc, dtCall>>
svVars == <<svm, svPc, svTimers, svRun, svLast, svBy>>
rgVars == <<rg, rgPc, rgRun, rgLast>>
linVars == <<lin, linPc, linRun, linLast>>
pcaVars == <<pca>>
gdVars == <<gd>>
qlVars == <<ql, qlLast>>
vars == <<km, kmPc, kmStep, kmCycle, lr, lrPc, lrRun, lrCall, dt, dtPc, dtCall,
          svm, svPc, svTimers, svRun, svLast, svBy,
          rg, rgPc, rgRun, rgLast,
          lin, linPc, linRun, linLast,
          pca,
          gd,
          ql, qlLast>>

\* what an event of one widget leaves alone: the other widgets
kmOthers == <<lrVars, dtVars, svVars, rgVars, linVars, pcaVars, gdVars, qlVars>>
lrOthers == <<kmVars, dtVars, svVars, rgVars, linVars, pcaVars, gdVars, qlVars>>
dtOthers == <<kmVars, lrVars, svVars, rgVars, linVars, pcaVars, gdVars, qlVars, dtCall>>
dtCallOthers == <<kmVars, lrVars, svVars, rgVars, linVars, pcaVars, gdVars, qlVars, dt, dtPc>>
svOthers == <<kmVars, lrVars, dtVars, rgVars, linVars, pcaVars, gdVars, qlVars>>
rgOthers == <<kmVars, lrVars, dtVars, svVars, linVars, pcaVars, gdVars, qlVars>>
linOthers == <<kmVars, lrVars, dtVars, svVars, rgVars, pcaVars, gdVars, qlVars>>
pcaOthers == <<kmVars, lrVars, dtVars, svVars, rgVars, linVars, gdVars, qlVars>>
gdOthers == <<kmVars, lrVars, dtVars, svVars, rgVars, linVars, pcaVars, qlVars>>
qlOthers == <<kmVars, lrVars, dtVars, svVars, rgVars, linVars, pcaVars, gdVars>>

(***************************************************************************)
(* Generic helpers                                                         *)
(***************************************************************************)
Range(s) == {s[i] : i \in DOMAIN s}

RECURSIVE Gcd(_, _)
Gcd(a, b) == IF b = 0 THEN a ELSE Gcd(b, a % b)

Lcm(a, b) == (a * b) \div Gcd(a, b)

RECURSIVE LcmUpTo(_)
LcmUpTo(n) == IF n <= 1 THEN 1 ELSE Lcm(LcmUpTo(n - 1), n)

RECURSIVE SumSeq(_)
SumSeq(s) == IF s = <<>> THEN 0 ELSE Head(s) + SumSeq(Tail(s))

Abs(a) == IF a < 0 THEN -a ELSE a

(***************************************************************************)
(* Exact rationals [n, d], d > 0, in lowest terms: the real numbers the     *)
(* JavaScript doubles stand for.                                           *)
(***************************************************************************)
Rat(n, d) ==
    LET g == Gcd(Abs(n), Abs(d))
        sgn == IF d < 0 THEN -1 ELSE 1
    IN  [n |-> sgn * (n \div g), d |-> sgn * (d \div g)]

RInt(a) == [n |-> a, d |-> 1]
RAdd(a, b) == Rat(a.n * b.d + b.n * a.d, a.d * b.d)
RNeg(a) == [n |-> -a.n, d |-> a.d]
RSub(a, b) == RAdd(a, RNeg(b))
RMul(a, b) == Rat(a.n * b.n, a.d * b.d)
RDiv(a, b) == Rat(a.n * b.d, a.d * b.n)
RLess(a, b) == a.n * b.d < b.n * a.d
RAbs(a) == [n |-> Abs(a.n), d |-> a.d]

RECURSIVE RPow(_, _)
RPow(a, i) == IF i = 0 THEN RInt(1) ELSE RMul(a, RPow(a, i - 1))

RECURSIVE RSum(_)
RSum(s) == IF s = <<>> THEN RInt(0) ELSE RAdd(Head(s), RSum(Tail(s)))

RDot(w, f) == RSum([i \in DOMAIN f |-> RMul(w[i], f[i])])

(***************************************************************************)
(*                              K-MEANS                                    *)
(*                                                                         *)
(* Data coordinates are whole pixels.  A centroid is a mean of at most     *)
(* KmNumPoints pixels, so centroid coordinates are kept exactly, as        *)
(* multiples of 1/KmScale pixel; the 1.0 pixel threshold is KmScale units. *)
(***************************************************************************)
KmNumPoints == 3      \* CONFIG.POINT_COUNT, scaled down
KmMaxX      == 3      \* pixel x coordinates 0..KmMaxX
KmMaxY      == 1      \* pixel y coordinates 0..KmMaxY
KmMaxK      == 3      \* the k slider offers 1..KmMaxK

KmScale == LcmUpTo(KmNumPoints)

ALGO_STATE == [IDLE |-> "idle", INIT |-> "init", ASSIGN |-> "assign",
               UPDATE |-> "update", CONVERGED |-> "converged"]

NoTimer == 0
KmTimerIds == 1..2

KmPixels == [x : 0..KmMaxX, y : 0..KmMaxY]

\* state, as declared; `timers` is the browser's set of pending setTimeout ids
KmState0 ==
    [k |-> 3, data |-> <<>>, centroids |-> <<>>, iteration |-> 0,
     algoState |-> ALGO_STATE.IDLE, isAutoRunning |-> FALSE,
     autoRunTimer |-> NoTimer, timers |-> {}]

\* generateRandomData: state.data = [] before the loop
generateRandomDataStart(s) == [s EXCEPT !.data = <<>>]

\* generateRandomData: one state.data.push of the loop; the point is unassigned
generateRandomDataPush(s, p) ==
    [s EXCEPT !.data = Append(s.data, [x |-> p.x, y |-> p.y, clusterIndex |-> -1])]

\* squared distance between a data point (pixels) and a centroid (1/KmScale)
DistSq(p, c) ==
    (c.x - p.x * KmScale) * (c.x - p.x * KmScale)
  + (c.y - p.y * KmScale) * (c.y - p.y * KmScale)

\* euclideanDistance(p1, p2) < euclideanDistance(q1, q2); sqrt is monotone
DistLess(p1, c1, p2, c2) == DistSq(p1, c1) < DistSq(p2, c2)

\* stopAutoRun without its clearTimeout
stopAutoRunKeepsTimer(s) == [s EXCEPT !.isAutoRunning = FALSE]

stopAutoRun(s) ==
    [s EXCEPT !.isAutoRunning = FALSE,
              !.timers = s.timers \ {s.autoRunTimer}]

resetAlgorithm(s) ==
    LET t == stopAutoRun(s)
    IN  [t EXCEPT !.iteration = 0,
                  !.algoState = ALGO_STATE.IDLE,
                  !.centroids = <<>>,
                  !.data = [i \in DOMAIN t.data |->
                              [t.data[i] EXCEPT !.clusterIndex = -1]]]

\* indices drawn without the Set: an index may come twice
InitChoicesWithRepeats(s) == [1..s.k -> DOMAIN s.data]

\* The index sets Math.random can build: k distinct indices, in insertion order
InitChoices(s) ==
    {q \in [1..s.k -> DOMAIN s.data] :
        \A a, b \in 1..s.k : a # b => q[a] # q[b]}

initCentroids(s, indices) ==
    [s EXCEPT !.centroids =
        [i \in DOMAIN indices |->
            [x |-> s.data[indices[i]].x * KmScale,
             y |-> s.data[indices[i]].y * KmScale,
             colorIndex |-> i - 1]]]

\* the scan with `dist <= minDist`: the last of the nearest centroids is kept
RECURSIVE NearestScanLast(_, _, _, _)
NearestScanLast(p, cs, idx, best) ==
    IF idx > Len(cs) THEN best
    ELSE IF best = -1 \/ ~DistLess(p, cs[best + 1], p, cs[idx])
         THEN NearestScanLast(p, cs, idx + 1, idx - 1)
         ELSE NearestScanLast(p, cs, idx + 1, best)

\* the scan with the comparison turned round: the farthest centroid is kept
RECURSIVE NearestScanFarthest(_, _, _, _)
NearestScanFarthest(p, cs, idx, best) ==
    IF idx > Len(cs) THEN best
    ELSE IF best = -1 \/ DistLess(p, cs[best + 1], p, cs[idx])
         THEN NearestScanFarthest(p, cs, idx + 1, idx - 1)
         ELSE NearestScanFarthest(p, cs, idx + 1, best)

\* index (0-based) of the centroid the forEach scan keeps for point p
RECURSIVE NearestScan(_, _, _, _)
NearestScan(p, cs, idx, best) ==
    IF idx > Len(cs) THEN best
    ELSE IF best = -1 \/ DistLess(p, cs[idx], p, cs[best + 1])
         THEN NearestScan(p, cs, idx + 1, idx - 1)
         ELSE NearestScan(p, cs, idx + 1, best)

assignClusters(s) ==
    [s EXCEPT !.data = [i \in DOMAIN s.data |->
        [s.data[i] EXCEPT !.clusterIndex =
            NearestScan(s.data[i], s.centroids, 1, -1)]]]

\* clusterPoints = state.data.filter(p => p.clusterIndex === idx)
ClusterPoints(s, idx) == SelectSeq(s.data, LAMBDA p : p.clusterIndex = idx)

MeanX(pts) == (SumSeq([i \in DOMAIN pts |-> pts[i].x]) * KmScale) \div Len(pts)
MeanY(pts) == (SumSeq([i \in DOMAIN pts |-> pts[i].y]) * KmScale) \div Len(pts)

\* squared distance between centroid c and the mean of pts, in 1/KmScale units
MoveSq(c, pts) ==
    (MeanX(pts) - c.x) * (MeanX(pts) - c.x)
  + (MeanY(pts) - c.y) * (MeanY(pts) - c.y)

\* dist > threshold, threshold = 1.0 pixel
MovedFar(c, pts) == MoveSq(c, pts) > KmScale * KmScale

\* updateCentroids: the new centroid list, and the returned `moved`
UpdatedCentroid(s, i) ==
    LET pts == ClusterPoints(s, i - 1)
        c == s.centroids[i]
    IN  IF Len(pts) > 0 /\ MovedFar(c, pts)
        THEN [c EXCEPT !.x = MeanX(pts), !.y = MeanY(pts)]
        ELSE c

updateCentroids(s) ==
    [s EXCEPT !.centroids = [i \in DOMAIN s.centroids |-> UpdatedCentroid(s, i)]]

updateCentroidsMoved(s) ==
    \E i \in DOMAIN s.centroids :
        LET pts == ClusterPoints(s, i - 1)
        IN  Len(pts) > 0 /\ MovedFar(s.centroids[i], pts)

\* performNextStep whose CONVERGED case goes back to ASSIGN
performNextStepGoesOn(s, indices) ==
    CASE s.algoState \in {ALGO_STATE.IDLE, ALGO_STATE.INIT} ->
            [initCentroids(s, indices) EXCEPT !.algoState = ALGO_STATE.ASSIGN]
      [] s.algoState = ALGO_STATE.ASSIGN ->
            [assignClusters(s) EXCEPT !.algoState = ALGO_STATE.UPDATE]
      [] s.algoState = ALGO_STATE.UPDATE ->
            LET moved == updateCentroidsMoved(s)
                u == [updateCentroids(s) EXCEPT !.iteration = s.iteration + 1]
            IN  IF ~moved
                THEN stopAutoRun([u EXCEPT !.algoState = ALGO_STATE.CONVERGED])
                ELSE [u EXCEPT !.algoState = ALGO_STATE.ASSIGN]
      [] OTHER -> [s EXCEPT !.algoState = ALGO_STATE.ASSIGN]

performNextStep(s, indices) ==
    CASE s.algoState \in {ALGO_STATE.IDLE, ALGO_STATE.INIT} ->
            [initCentroids(s, indices) EXCEPT !.algoState = ALGO_STATE.ASSIGN]
      [] s.algoState = ALGO_STATE.ASSIGN ->
            [assignClusters(s) EXCEPT !.algoState = ALGO_STATE.UPDATE]
      [] s.algoState = ALGO_STATE.UPDATE ->
            LET moved == updateCentroidsMoved(s)
                u == [updateCentroids(s) EXCEPT !.iteration = s.iteration + 1]
            IN  IF ~moved
                THEN stopAutoRun([u EXCEPT !.algoState = ALGO_STATE.CONVERGED])
                ELSE [u EXCEPT !.algoState = ALGO_STATE.ASSIGN]
      [] OTHER -> s

\* the random draws a call of performNextStep(s) may consume
StepChoices(s) ==
    IF s.algoState \in {ALGO_STATE.IDLE, ALGO_STATE.INIT}
    THEN InitChoices(s) ELSE {<<>>}

FreshTimer(s) == CHOOSE t \in KmTimerIds : t \notin s.timers

\* the closure `loop` of startAutoRun
loop(s, indices) ==
    IF ~s.isAutoRunning THEN s
    ELSE LET t == performNextStep(s, indices)
         IN  IF t.algoState # ALGO_STATE.CONVERGED
             THEN [t EXCEPT !.autoRunTimer = FreshTimer(t),
                            !.timers = t.timers \cup {FreshTimer(t)}]
             ELSE t

startAutoRunPre(s) ==
    LET r == IF s.algoState = ALGO_STATE.CONVERGED THEN resetAlgorithm(s) ELSE s
    IN  [r EXCEPT !.isAutoRunning = TRUE]

\* what performNextStep saw and left: ghost record for the step properties
NoStep == [from |-> "none", pre |-> <<>>]
StepOf(s) == [from |-> s.algoState, pre |-> s.centroids]
\* what resetAlgorithm found: ghost record for the reset property
ResetOf(s) == [from |-> "reset", hadCentroids |-> s.centroids # <<>>,
               wasAutoRunning |-> s.isAutoRunning]

\* the within-cluster sum of squared distances, every point to the centroid
\* of its clusterIndex, in squares of 1/KmScale pixel
Wcss(s) ==
    SumSeq([i \in DOMAIN s.data |->
               DistSq(s.data[i], s.centroids[s.data[i].clusterIndex + 1])])

\* the sums after the last UPDATE step and after the one before, on the same
\* data and centroids: ghost record for the monotonicity property
NoCycle == [wcss |-> -1, prev |-> -1]
CycleAfter(cycle, s, t) ==
    IF s.algoState = ALGO_STATE.UPDATE
    THEN [wcss |-> Wcss(t), prev |-> cycle.wcss]
    ELSE cycle

KSliderInput ==
    /\ kmPc = "idle"
    /\ \E v \in 1..KmMaxK : km' = resetAlgorithm([km EXCEPT !.k = v])
    /\ kmStep' = ResetOf(km)
    /\ kmCycle' = NoCycle
    /\ UNCHANGED <<kmPc, kmOthers>>

NextStepClick ==
    /\ kmPc = "idle"
    /\ \E q \in StepChoices(km) : km' = performNextStep(km, q)
    /\ kmStep' = StepOf(km)
    /\ kmCycle' = CycleAfter(kmCycle, km, km')
    /\ UNCHANGED <<kmPc, kmOthers>>

AutoRunClick ==
    /\ kmPc = "idle"
    /\ IF km.isAutoRunning
       THEN /\ km' = stopAutoRun(km)
            /\ kmStep' = NoStep
            /\ kmCycle' = kmCycle
       ELSE LET r == startAutoRunPre(km)
            IN  /\ \E q \in StepChoices(r) : km' = loop(r, q)
                /\ kmStep' = StepOf(r)
                /\ kmCycle' = IF km.algoState = ALGO_STATE.CONVERGED
                              THEN NoCycle ELSE CycleAfter(kmCycle, r, km')
    /\ UNCHANGED <<kmPc, kmOthers>>

AutoRunTimerFires ==
    /\ kmPc = "idle"
    /\ \E t \in km.timers :
         LET r == [km EXCEPT !.timers = km.timers \ {t}]
         IN  /\ \E q \in StepChoices(r) : km' = loop(r, q)
             /\ kmStep' = IF r.isAutoRunning THEN StepOf(r) ELSE NoStep
             /\ kmCycle' = IF r.isAutoRunning THEN CycleAfter(kmCycle, r, km')
                           ELSE kmCycle
    /\ UNCHANGED <<kmPc, kmOthers>>

\* randomDataBtn click: generateRandomData() up to its loop
RandomDataClick ==
    /\ kmPc = "idle"
    /\ km' = generateRandomDataStart(km)
    /\ kmPc' = "randomDataBtn"
    /\ kmStep' = NoStep
    /\ kmCycle' = NoCycle
    /\ UNCHANGED kmOthers

\* One round of the loop of generateRandomData.  JavaScript runs a handler to
\* completion, so no other event is taken before the loop has ended; the last
\* round carries the rest of the handler that called generateRandomData
\* (resetAlgorithm for the button, updateUI for the page load).
GenerateRandomDataLoop ==
    /\ kmPc # "idle"
    /\ \E p \in KmPixels :
         LET t == generateRandomDataPush(km, p)
         IN  IF Len(t.data) < KmNumPoints
             THEN km' = t /\ kmPc' = kmPc
             ELSE /\ km' = IF kmPc = "randomDataBtn" THEN resetAlgorithm(t) ELSE t
                  /\ kmPc' = "idle"
    /\ kmStep' = IF kmPc = "randomDataBtn" /\ Len(km.data) + 1 >= KmNumPoints
               THEN ResetOf(km) ELSE NoStep
    /\ kmCycle' = NoCycle
    /\ UNCHANGED kmOthers

ResetClick ==
    /\ kmPc = "idle"
    /\ km' = resetAlgorithm(km)
    /\ kmStep' = ResetOf(km)
    /\ kmCycle' = NoCycle
    /\ UNCHANGED <<kmPc, kmOthers>>

KmNext ==
    \/ KSliderInput
    \/ NextStepClick
    \/ AutoRunClick
    \/ AutoRunTimerFires
    \/ RandomDataClick
    \/ GenerateRandomDataLoop
    \/ ResetClick


(***************************************************************************)
(* K-Means claims                                                          *)
(***************************************************************************)
KmStepped == kmStep.from \notin {"none", "reset"}

\* C1: every change of algoState made by performNextStep follows
\* IDLE -> INIT -> ASSIGN -> UPDATE -> (ASSIGN | CONVERGED), and a step makes
\* no other transition.
C1_StepFollowsDocumentedOrder ==
    KmStepped =>
        /\ kmStep.from = ALGO_STATE.IDLE => km.algoState = ALGO_STATE.INIT
        /\ kmStep.from = ALGO_STATE.INIT => km.algoState = ALGO_STATE.ASSIGN
        /\ kmStep.from = ALGO_STATE.ASSIGN => km.algoState = ALGO_STATE.UPDATE
        /\ kmStep.from = ALGO_STATE.UPDATE =>
              km.algoState \in {ALGO_STATE.ASSIGN, ALGO_STATE.CONVERGED}
        /\ kmStep.from = ALGO_STATE.CONVERGED =>
              km.algoState = ALGO_STATE.CONVERGED

\* C2: after every UPDATE step each centroid with at least one assigned point
\* is exactly at the mean of its assigned points, and each centroid with no
\* assigned point is where it was before the step.
C2_CentroidAtMeanAfterUpdate ==
    kmStep.from = ALGO_STATE.UPDATE =>
        \A i \in DOMAIN km.centroids :
            LET pts == ClusterPoints(km, i - 1)
            IN  IF Len(pts) > 0
                THEN /\ km.centroids[i].x * Len(pts)
                          = KmScale * SumSeq([n \in DOMAIN pts |-> pts[n].x])
                     /\ km.centroids[i].y * Len(pts)
                          = KmScale * SumSeq([n \in DOMAIN pts |-> pts[n].y])
                ELSE km.centroids[i] = kmStep.pre[i]

\* C3: an UPDATE step ends in CONVERGED exactly when every centroid's distance
\* between its old position and the mean of its assigned points is less than
\* 1.0; if any such distance is 1.0 or more the machine is back in ASSIGN.
C3_ConvergedIffAllBelowThreshold ==
    kmStep.from = ALGO_STATE.UPDATE =>
        LET Below(i) ==
                LET pts == ClusterPoints(km, i - 1)
                IN  Len(pts) > 0 => MoveSq(kmStep.pre[i], pts) < KmScale * KmScale
            allBelow == \A i \in DOMAIN kmStep.pre : Below(i)
        IN  /\ allBelow => km.algoState = ALGO_STATE.CONVERGED
            /\ ~allBelow => km.algoState = ALGO_STATE.ASSIGN

\* C13: after every ASSIGN step each point's clusterIndex is the index of a
\* centroid at the least distance from the point, and no centroid of a lower
\* index is as near.
C13_AssignedToFirstNearest ==
    kmStep.from = ALGO_STATE.ASSIGN =>
        \A i \in DOMAIN km.data :
            LET p == km.data[i]
                own == p.clusterIndex + 1
            IN  /\ own \in DOMAIN km.centroids
                /\ \A j \in DOMAIN km.centroids :
                      /\ DistSq(p, km.centroids[own]) <= DistSq(p, km.centroids[j])
                      /\ j < own =>
                           DistSq(p, km.centroids[own]) < DistSq(p, km.centroids[j])

\* an ASSIGN step has left a point with two centroids at the same least distance
C13_Witness ==
    /\ kmStep.from = ALGO_STATE.ASSIGN
    /\ \E i \in DOMAIN km.data : \E j \in DOMAIN km.centroids :
          /\ j # km.data[i].clusterIndex + 1
          /\ DistSq(km.data[i], km.centroids[j])
               = DistSq(km.data[i], km.centroids[km.data[i].clusterIndex + 1])

\* a step from IDLE or INIT: initCentroids has run
KmInitialized == kmStep.from \in {ALGO_STATE.IDLE, ALGO_STATE.INIT}

\* C14: after initCentroids there are exactly k centroids, centroid i has
\* colorIndex i, and the centroids lie on k data points of k different
\* indices.
C14_CentroidsOnDistinctPoints ==
    KmInitialized =>
        /\ Len(km.centroids) = km.k
        /\ \A i \in DOMAIN km.centroids : km.centroids[i].colorIndex = i - 1
        /\ \E q \in [DOMAIN km.centroids -> DOMAIN km.data] :
              /\ \A a, b \in DOMAIN q : a # b => q[a] # q[b]
              /\ \A a \in DOMAIN q :
                    /\ km.centroids[a].x = km.data[q[a]].x * KmScale
                    /\ km.centroids[a].y = km.data[q[a]].y * KmScale

\* initCentroids has set two centroids or more, two of them on the same spot
C14_Witness ==
    /\ KmInitialized
    /\ km.k >= 2
    /\ km.centroids[1].x = km.centroids[2].x
    /\ km.centroids[1].y = km.centroids[2].y

\* C27: right after the first ASSIGN step that follows the initialization,
\* every one of the k centroids has at least one data point assigned to it.
C27_NoEmptyClusterAfterFirstAssign ==
    kmStep.from = ALGO_STATE.ASSIGN /\ km.iteration = 0 =>
        \A i \in DOMAIN km.centroids : Len(ClusterPoints(km, i - 1)) > 0

\* C15: after resetAlgorithm (reset button, k slider, random-data button)
\* algoState is IDLE, there is no centroid, every point's clusterIndex is -1,
\* the iteration counter is 0, auto-run is off and no step timer is pending.
C15_ResetReturnsToIdle ==
    kmStep.from = "reset" =>
        /\ km.algoState = ALGO_STATE.IDLE
        /\ km.centroids = <<>>
        /\ \A i \in DOMAIN km.data : km.data[i].clusterIndex = -1
        /\ km.iteration = 0
        /\ ~km.isAutoRunning
        /\ km.timers = {}

\* a reset that found auto-run active and centroids in place
C15_Witness ==
    /\ kmStep.from = "reset"
    /\ kmStep.wasAutoRunning
    /\ kmStep.hadCentroids

\* C16: a call of performNextStep in CONVERGED leaves algoState, every
\* centroid, every point's clusterIndex and the iteration counter as they were.
C16_ConvergedHalts ==
    [][kmStep'.from = ALGO_STATE.CONVERGED =>
          /\ km'.algoState = ALGO_STATE.CONVERGED
          /\ km'.centroids = km.centroids
          /\ km'.data = km.data
          /\ km'.iteration = km.iteration]_vars

\* performNextStep has been called in CONVERGED
C16_Witness ==
    /\ kmStep.from = ALGO_STATE.CONVERGED
    /\ km.iteration > 0

\* C17: on fixed data the within-cluster sum of squared distances after an
\* UPDATE step is never more than it was after the UPDATE step before.
C17_SumOfSquaresNeverGrows ==
    kmCycle.prev # -1 => kmCycle.wcss <= kmCycle.prev

\* two cycles have been completed and the second one has lowered the sum
C17_Witness ==
    /\ kmCycle.prev # -1
    /\ kmCycle.wcss < kmCycle.prev

(***************************************************************************)
(*                        LOGISTIC REGRESSION                              *)
(*                                                                         *)
(* Coordinates, features and weights are exact rationals.                  *)
(***************************************************************************)
LrCanvasWidth  == 600
LrCanvasHeight == 500

LrMaxDegree == 2                       \* the degree slider offers 1..LrMaxDegree
LrProbeXs == {0, 300, 600}             \* sample pixel columns
LrProbeYs == {0, 250}                  \* sample pixel rows
\* sample fitted weights: 0, the 0.001 threshold of drawDecisionBoundary, -2
LrWeightVals == {RInt(0), Rat(1, 1000), RInt(-2)}

\* getPolynomialFeatures(x, y, degree); x and y are rationals (pixels)
RECURSIVE PolyTerms(_, _, _, _, _)
PolyTerms(normX, normY, degree, d, i) ==
    IF d > degree THEN <<>>
    ELSE IF i > d THEN PolyTerms(normX, normY, degree, d + 1, 0)
    ELSE <<RMul(RPow(normX, i), RPow(normY, d - i))>>
           \o PolyTerms(normX, normY, degree, d, i + 1)

getPolynomialFeatures(x, y, degree) ==
    LET normX == RDiv(x, RInt(LrCanvasWidth))
        normY == RDiv(y, RInt(LrCanvasHeight))
    IN  <<RInt(1)>> \o PolyTerms(normX, normY, degree, 1, 0)

\* z of predict(x, y): the weighted sum the sigmoid is applied to, or "none"
\* when predict returns 0.5 because the weights do not fit the features
predictZ(s, x, y) ==
    LET features == getPolynomialFeatures(x, y, s.degree)
    IN  IF Len(s.weights) # Len(features) THEN "none"
        ELSE RDot(s.weights, features)

\* drawDecisionBoundary: the polyline handed to drawBoundaryLine, <<>> when
\* nothing is drawn, "contour" when drawContour(0.5) is used instead
drawDecisionBoundary(s) ==
    IF s.degree = 1 /\ Len(s.weights) >= 3
    THEN LET w0 == s.weights[1]
             w1 == s.weights[2]
             w2 == s.weights[3]
             W == RInt(LrCanvasWidth)
             H == RInt(LrCanvasHeight)
             YAt(x) == RMul(RDiv(RNeg(RAdd(w0, RMul(w1, RDiv(x, W)))), w2), H)
         IN  IF RLess(RAbs(w2), Rat(1, 1000))
             THEN IF RLess(Rat(1, 1000), RAbs(w1))
                  THEN LET xBoundary == RMul(RDiv(RNeg(w0), w1), W)
                       IN  <<[x |-> xBoundary, y |-> RInt(0)],
                             [x |-> xBoundary, y |-> H]>>
                  ELSE <<>>
             ELSE <<[x |-> RInt(0), y |-> YAt(RInt(0))],
                    [x |-> W, y |-> YAt(W)]>>
    ELSE "contour"

LrPointsPerClass == 1    \* CONFIG.TRAINING_POINTS_PER_CLASS (12 in the code)
LrDefaultEpochs == 2     \* CONFIG.DEFAULT_EPOCHS (100 in the code)
LrMaxPoints == 3         \* canvas clicks are followed up to this many points
LrAwaitEvery == 10       \* epoch % 10 === 0

\* the epoch slider: the default, and a run with epochs that do not await
LrEpochValues == {LrDefaultEpochs, LrAwaitEvery + 1}
\* the dispersion slider: the default and one other value
LrDispersionValues == {70, 100}
\* centerA, centerB and a place clicked on the canvas
LrClassA == {[x |-> 180, y |-> 175]}
LrClassB == {[x |-> 420, y |-> 325]}
LrClicks == {[x |-> 300, y |-> 250]}

\* the weights an epoch may leave: every choice for three weights, one value
\* throughout for longer vectors
LrFitted(len) ==
    IF len <= 3 THEN [1..len -> LrWeightVals]
    ELSE {[j \in 1..len |-> v] : v \in LrWeightVals}

LrState0 ==
    [epochs |-> LrDefaultEpochs, degree |-> 1, dispersion |-> 70,
     trainingData |-> <<>>, weights |-> <<>>, isTraining |-> FALSE,
     isTrained |-> FALSE, lossHistory |-> <<>>]
NoCall == [op |-> "none"]
\* no trainModel() is under way
LrNoRun == [n |-> -1, epoch |-> -1, allocated |-> -1]

\* generateRandomData(): as and bs are the points gaussianRandom places
LrGenerateRandomData(s, as, bs) ==
    [s EXCEPT !.trainingData =
        [i \in DOMAIN as |-> [x |-> as[i].x, y |-> as[i].y, label |-> 0]]
        \o [i \in DOMAIN bs |-> [x |-> bs[i].x, y |-> bs[i].y, label |-> 1]]]

\* what the handlers do after a change of degree or data
LrDropModel(s) ==
    [s EXCEPT !.isTrained = FALSE, !.weights = <<>>, !.lossHistory = <<>>]

resetAll(s) == LrDropModel([s EXCEPT !.trainingData = <<>>])

\* trainModel() up to its loop: one zero weight per feature of the degree
trainModelStart(s) ==
    [s EXCEPT
        !.isTraining = TRUE,
        !.isTrained = FALSE,
        !.lossHistory = <<>>,
        !.weights = [i \in 1..Len(getPolynomialFeatures(RInt(0), RInt(0), s.degree))
                       |-> RInt(0)]]

\* One round of the epoch loop of trainModel up to its if: gradients has the
\* length of state.weights, every weight in place is updated, the loss is
\* pushed.  The values are left open; the history keeps the epoch numbers.
trainModelEpoch(s, epoch, fitted) ==
    [s EXCEPT !.weights = fitted, !.lossHistory = Append(s.lossHistory, epoch)]

\* epochSlider input
EpochSliderInput ==
    /\ lrPc = "idle"
    /\ \E e \in LrEpochValues \ {lr.epochs} : lr' = [lr EXCEPT !.epochs = e]
    /\ lrCall' = NoCall
    /\ UNCHANGED <<lrPc, lrRun, lrOthers>>

\* degreeSlider input: the model is reset
DegreeSliderInput ==
    /\ lrPc = "idle"
    /\ \E d \in 1..LrMaxDegree : lr' = LrDropModel([lr EXCEPT !.degree = d])
    /\ lrCall' = NoCall
    /\ UNCHANGED <<lrPc, lrRun, lrOthers>>

\* dispersionSlider input: new data, the model is reset
DispersionSliderInput ==
    /\ lrPc = "idle"
    /\ \E d \in LrDispersionValues \ {lr.dispersion},
          as \in [1..LrPointsPerClass -> LrClassA],
          bs \in [1..LrPointsPerClass -> LrClassB] :
          lr' = LrDropModel(LrGenerateRandomData([lr EXCEPT !.dispersion = d],
                                                 as, bs))
    /\ lrCall' = NoCall
    /\ UNCHANGED <<lrPc, lrRun, lrOthers>>

\* randomBtn click: new data, the model is reset
LrRandomBtnClick ==
    /\ lrPc = "idle"
    /\ \E as \in [1..LrPointsPerClass -> LrClassA],
          bs \in [1..LrPointsPerClass -> LrClassB] :
          lr' = LrDropModel(LrGenerateRandomData(lr, as, bs))
    /\ lrCall' = NoCall
    /\ UNCHANGED <<lrPc, lrRun, lrOthers>>

\* resetBtn click
LrResetBtnClick ==
    /\ lrPc = "idle"
    /\ lr' = resetAll(lr)
    /\ lrCall' = NoCall
    /\ UNCHANGED <<lrPc, lrRun, lrOthers>>

\* handleCanvasClick (label 0) and handleCanvasRightClick (label 1)
LrCanvasClick(label) ==
    /\ lrPc = "idle"
    /\ ~lr.isTraining
    /\ Len(lr.trainingData) < LrMaxPoints
    /\ \E p \in LrClicks :
          lr' = [lr EXCEPT
                   !.trainingData = Append(@, [x |-> p.x, y |-> p.y,
                                               label |-> label]),
                   !.isTrained = FALSE]
    /\ lrCall' = NoCall
    /\ UNCHANGED <<lrPc, lrRun, lrOthers>>

handleCanvasClick == LrCanvasClick(0)
handleCanvasRightClick == LrCanvasClick(1)

\* trainBtn click: trainModel() is called when no training is under way and
\* there are two points or more; lrCall keeps the state the click found
TrainClick ==
    /\ lrPc = "idle"
    /\ lrCall' = [op |-> "trainBtn", before |-> lr]
    /\ IF ~lr.isTraining /\ Len(lr.trainingData) >= 2
       THEN /\ lr' = trainModelStart(lr)
            /\ lrRun' = [n |-> Len(lr.trainingData), epoch |-> 0,
                         allocated |-> Len(trainModelStart(lr).weights)]
            /\ lrPc' = "trainModel"
       ELSE UNCHANGED <<lr, lrRun, lrPc>>
    /\ UNCHANGED lrOthers

\* One epoch of trainModel.  The function runs on without a break up to its
\* await, which it reaches in every tenth epoch and in the last one.
TrainModelEpoch ==
    /\ lrPc = "trainModel"
    /\ lrRun.epoch < lr.epochs
    /\ \E fitted \in LrFitted(Len(lr.weights)) :
          lr' = trainModelEpoch(lr, lrRun.epoch, fitted)
    /\ lrRun' = [lrRun EXCEPT !.epoch = lrRun.epoch + 1]
    /\ lrPc' = IF lrRun.epoch % LrAwaitEvery = 0 \/ lrRun.epoch = lr.epochs - 1
               THEN "idle" ELSE "trainModel"
    /\ lrCall' = NoCall
    /\ UNCHANGED lrOthers

\* the timer of the await has fired: trainModel goes on
TrainModelResumes ==
    /\ lrPc = "idle"
    /\ lr.isTraining
    /\ lrPc' = "trainModel"
    /\ lrCall' = NoCall
    /\ UNCHANGED <<lr, lrRun, lrOthers>>

\* the epoch loop of trainModel has run out
TrainModelDone ==
    /\ lrPc = "trainModel"
    /\ lrRun.epoch >= lr.epochs
    /\ lr' = [lr EXCEPT !.isTraining = FALSE, !.isTrained = TRUE]
    /\ lrRun' = LrNoRun
    /\ lrPc' = "idle"
    /\ lrCall' = NoCall
    /\ UNCHANGED lrOthers

CallGetPolynomialFeatures ==
    /\ lrPc = "idle"
    /\ \E x \in LrProbeXs, y \in LrProbeYs :
          lrCall' = [op |-> "getPolynomialFeatures", x |-> x, y |-> y,
                     degree |-> lr.degree,
                     result |-> getPolynomialFeatures(RInt(x), RInt(y), lr.degree)]
    /\ UNCHANGED <<lr, lrPc, lrRun>>
    /\ UNCHANGED lrOthers

\* render() draws the boundary while training and once trained
CallDrawDecisionBoundary ==
    /\ lrPc = "idle"
    /\ lr.isTrained \/ lr.isTraining
    /\ lrCall' = [op |-> "drawDecisionBoundary",
                  result |-> drawDecisionBoundary(lr)]
    /\ UNCHANGED <<lr, lrPc, lrRun>>
    /\ UNCHANGED lrOthers

LrNext ==
    \/ EpochSliderInput
    \/ DegreeSliderInput
    \/ DispersionSliderInput
    \/ LrRandomBtnClick
    \/ LrResetBtnClick
    \/ handleCanvasClick
    \/ handleCanvasRightClick
    \/ TrainClick
    \/ TrainModelEpoch
    \/ TrainModelResumes
    \/ TrainModelDone
    \/ CallGetPolynomialFeatures
    \/ CallDrawDecisionBoundary

\* drawContour: marching squares over the grid of predict values.  One cell
\* of the grid is taken at a time, (i, j) its column and row, its four corner
\* values exact rationals.
ContourResolution == 10
ContourValues == {RInt(0), Rat(1, 4), Rat(1, 2), Rat(3, 4), RInt(1)}
ContourThresholds == {Rat(1, 2)}
ContourCells == {[i |-> 0, j |-> 0], [i |-> 2, j |-> 1]}

getT(threshold, v0, v1) ==
    LET diff == RSub(v1, v0)
    IN  IF RLess(RAbs(diff), Rat(1, 10^6)) THEN Rat(1, 2)
        ELSE RDiv(RSub(threshold, v0), diff)

\* v >= threshold ? 1 : 0
ContourBit(v, threshold) == IF ~RLess(v, threshold) THEN 1 ELSE 0

\* (bTL << 3) | (bTR << 2) | (bBR << 1) | bBL
ContourCaseIndex(c, threshold) ==
    ContourBit(c.TL, threshold) * 2^3 + ContourBit(c.TR, threshold) * 2^2
      + ContourBit(c.BR, threshold) * 2 + ContourBit(c.BL, threshold)

\* the interpolated points on the four edges of the cell
ContourEdges(c, cell, threshold) ==
    LET x == RInt(cell.i * ContourResolution)
        y == RInt(cell.j * ContourResolution)
        res == RInt(ContourResolution)
    IN  [top |-> [x |-> RAdd(x, RMul(getT(threshold, c.TL, c.TR), res)), y |-> y],
         right |-> [x |-> RAdd(x, res),
                    y |-> RAdd(y, RMul(getT(threshold, c.TR, c.BR), res))],
         bottom |-> [x |-> RAdd(x, RMul(getT(threshold, c.BL, c.BR), res)),
                     y |-> RAdd(y, res)],
         left |-> [x |-> x, y |-> RAdd(y, RMul(getT(threshold, c.TL, c.BL), res))]]

ContourLine(p, q) == [from |-> p, to |-> q]

\* the switch with one line only in case 5
ContourSegmentsPlainSaddle(caseIndex, e) ==
    CASE caseIndex = 1 -> <<ContourLine(e.left, e.bottom)>>
      [] caseIndex = 2 -> <<ContourLine(e.bottom, e.right)>>
      [] caseIndex = 3 -> <<ContourLine(e.left, e.right)>>
      [] caseIndex = 4 -> <<ContourLine(e.top, e.right)>>
      [] caseIndex = 5 -> <<ContourLine(e.left, e.top)>>
      [] caseIndex = 6 -> <<ContourLine(e.top, e.bottom)>>
      [] caseIndex = 7 -> <<ContourLine(e.left, e.top)>>
      [] caseIndex = 8 -> <<ContourLine(e.left, e.top)>>
      [] caseIndex = 9 -> <<ContourLine(e.top, e.bottom)>>
      [] caseIndex = 10 -> <<ContourLine(e.left, e.bottom), ContourLine(e.top, e.right)>>
      [] caseIndex = 11 -> <<ContourLine(e.top, e.right)>>
      [] caseIndex = 12 -> <<ContourLine(e.left, e.right)>>
      [] caseIndex = 13 -> <<ContourLine(e.bottom, e.right)>>
      [] caseIndex = 14 -> <<ContourLine(e.left, e.bottom)>>
      [] OTHER -> <<>>

\* the switch over caseIndex: the drawLine calls, in order
ContourSegments(caseIndex, e) ==
    CASE caseIndex = 1 -> <<ContourLine(e.left, e.bottom)>>
      [] caseIndex = 2 -> <<ContourLine(e.bottom, e.right)>>
      [] caseIndex = 3 -> <<ContourLine(e.left, e.right)>>
      [] caseIndex = 4 -> <<ContourLine(e.top, e.right)>>
      [] caseIndex = 5 -> <<ContourLine(e.left, e.top), ContourLine(e.bottom, e.right)>>
      [] caseIndex = 6 -> <<ContourLine(e.top, e.bottom)>>
      [] caseIndex = 7 -> <<ContourLine(e.left, e.top)>>
      [] caseIndex = 8 -> <<ContourLine(e.left, e.top)>>
      [] caseIndex = 9 -> <<ContourLine(e.top, e.bottom)>>
      [] caseIndex = 10 -> <<ContourLine(e.left, e.bottom), ContourLine(e.top, e.right)>>
      [] caseIndex = 11 -> <<ContourLine(e.top, e.right)>>
      [] caseIndex = 12 -> <<ContourLine(e.left, e.right)>>
      [] caseIndex = 13 -> <<ContourLine(e.bottom, e.right)>>
      [] caseIndex = 14 -> <<ContourLine(e.left, e.bottom)>>
      [] OTHER -> <<>>

\* one round of the inner loop of drawContour
drawContourCell(c, cell, threshold) ==
    LET caseIndex == ContourCaseIndex(c, threshold)
    IN  IF caseIndex = 0 \/ caseIndex = 15
        THEN [caseIndex |-> caseIndex, segments |-> <<>>]
        ELSE [caseIndex |-> caseIndex,
              segments |-> ContourSegments(caseIndex,
                                           ContourEdges(c, cell, threshold))]

\* drawContour(threshold) at a cell that awaits it
CallDrawContourCell ==
    /\ lrCall.op = "pending"
    /\ lrCall' = [op |-> "drawContour", corners |-> lrCall.corners,
                  cell |-> lrCall.cell, threshold |-> lrCall.threshold,
                  result |-> drawContourCell(lrCall.corners, lrCall.cell,
                                             lrCall.threshold)]
    /\ UNCHANGED <<lr, lrPc, lrRun, lrOthers>>

(***************************************************************************)
(* Logistic-regression claims                                              *)
(***************************************************************************)
\* C4: for degree 2, getPolynomialFeatures(x, y, 2) is exactly the six
\* features [1, x, y, x^2, xy, y^2] in that order (x and y as the function
\* normalises them), for every x and y.
C4_Degree2FeatureOrder ==
    (lrCall.op = "getPolynomialFeatures" /\ lrCall.degree = 2) =>
        LET nx == Rat(lrCall.x, LrCanvasWidth)
            ny == Rat(lrCall.y, LrCanvasHeight)
        IN  lrCall.result =
                <<RInt(1), nx, ny, RMul(nx, nx), RMul(nx, ny), RMul(ny, ny)>>

\* C5: for degree 1 with |weights[2]| >= 0.001, every point of the line
\* drawn by drawDecisionBoundary satisfies
\* weights . getPolynomialFeatures(x, y, 1) = 0 (both end points do, hence
\* the whole segment).
C5_BoundaryOnClassifierZeroSet ==
    (/\ lrCall.op = "drawDecisionBoundary"
     /\ lr.degree = 1
     /\ Len(lr.weights) >= 3
     /\ ~RLess(RAbs(lr.weights[3]), Rat(1, 1000))) =>
        \A i \in DOMAIN lrCall.result :
            predictZ(lr, lrCall.result[i].x, lrCall.result[i].y) = RInt(0)

\* C11: while a training run is under way the weight vector has the length
\* allocated at the start of the run, which is the number of polynomial
\* features of the present degree; and once isTrained holds, the weight vector
\* has as many entries as the present degree has features.  Read between
\* handlers.
C11_WeightsKeepRunLength ==
    lrPc = "idle" =>
        /\ lr.isTraining =>
              /\ Len(lr.weights) = lrRun.allocated
              /\ lrRun.allocated
                   = Len(getPolynomialFeatures(RInt(0), RInt(0), lr.degree))
        /\ lr.isTrained =>
              Len(lr.weights)
                = Len(getPolynomialFeatures(RInt(0), RInt(0), lr.degree))

\* the case index of the cell last drawn, from the corners at or above the
\* threshold
CornerCase ==
    LET At(v) == IF RLess(v, lrCall.threshold) THEN 0 ELSE 1
    IN  8 * At(lrCall.corners.TL) + 4 * At(lrCall.corners.TR)
          + 2 * At(lrCall.corners.BR) + At(lrCall.corners.BL)

\* C24: for a cell of any four corner states drawContour takes the case index
\* 8*TL + 4*TR + 2*BR + BL and draws no line in cases 0 and 15, two lines in
\* the saddle cases 5 and 10, and one line in every other case.
C24_ContourSegmentsPerCase ==
    lrCall.op = "drawContour" =>
        /\ lrCall.result.caseIndex = CornerCase
        /\ Len(lrCall.result.segments) =
              IF CornerCase \in {0, 15} THEN 0
              ELSE IF CornerCase \in {5, 10} THEN 2
              ELSE 1

\* a saddle cell, bottom-left and top-right inside, drawn with two lines, one
\* of them ending where two equal corner values make getT take the midpoint
C24_Witness ==
    /\ lrCall.op = "drawContour"
    /\ CornerCase = 5
    /\ Len(lrCall.result.segments) = 2
    /\ lrCall.corners.TL = lrCall.corners.BR
    /\ lrCall.corners.TR = lrCall.corners.BL

(***************************************************************************)
(*                           DECISION TREE                                 *)
(*                                                                         *)
(* Coordinates are whole pixels; split values and impurities are exact     *)
(* rationals.  Math.log2 is a binary fixed-point logarithm.                *)
(***************************************************************************)
DtPointsPerClass == 2   \* CONFIG.TRAINING_POINTS_PER_CLASS, scaled down
DtMaxX     == 1         \* pixel x coordinates 0..DtMaxX
DtMaxY     == 1         \* pixel y coordinates 0..DtMaxY
DtMaxDepth == 3         \* the depth slider offers 1..DtMaxDepth

DtPixels == [x : 0..DtMaxX, y : 0..DtMaxY]

\* the data sets findBestSplit is applied to on its own
DtSplitMaxX == 2
DtSplitMaxY == 1
DtSplitMaxLen == 3
DtSplitPoints == [x : 0..DtSplitMaxX, y : 0..DtSplitMaxY, label : {"A", "B"}]
DtSplitData == UNION {[1..n -> DtSplitPoints] : n \in 1..DtSplitMaxLen}
DtFeatures == <<"x", "y">>

\* the data sets a tree is built on at two depths, both offered by the depth slider
DtAccuracyMaxLen == 4
DtAccuracyData == UNION {[1..n -> DtSplitPoints] : n \in 1..DtAccuracyMaxLen}

\* the groups giniImpurity is applied to on its own, the empty one included
DtGroupMaxLen == 4
DtGroups == UNION {[1..n -> DtSplitPoints] : n \in 0..DtGroupMaxLen}
DtCriteria == {"gini", "entropy"}

Null == [isNull |-> TRUE]

DtState0 == [maxDepth |-> 3, criterion |-> "gini", data |-> <<>>, tree |-> Null]

RLeq(a, b) == ~RLess(b, a)

\* F applied to the value of v, which is computed once
Bind(v, F(_)) == CHOOSE r \in {F(x) : x \in {v}} : TRUE

\* p[feature]
Coord(p, feature) == IF feature = "x" THEN p.x ELSE p.y

CountA(group) == Cardinality({i \in DOMAIN group : group[i].label = "A"})

\* Math.log2(n/d) for 0 < n <= d, to Log2Bits binary places (truncated):
\* the mantissa of n/d in [1, 2), kept with 14 binary places, is squared
\* once for every place
Log2Bits == 10

RECURSIVE Log2Exp(_, _)
Log2Exp(n, d) == IF n >= d THEN 0 ELSE 1 + Log2Exp(2 * n, d)

RECURSIVE Log2Frac(_, _, _)
Log2Frac(m, k, acc) ==
    IF k = 0 THEN acc
    ELSE Bind((m * m) \div 2^14, LAMBDA sq :
           IF sq >= 2^15
           THEN Log2Frac(sq \div 2, k - 1, 2 * acc + 1)
           ELSE Log2Frac(sq, k - 1, 2 * acc))

log2(r) ==
    Bind(Log2Exp(r.n, r.d), LAMBDA e :
      Rat(Log2Frac((r.n * 2^e * 2^14) \div r.d, Log2Bits, 0) - e * 2^Log2Bits,
          2^Log2Bits))

\* a variant that leaves pB unsquared
giniImpurityPlainPB(group) ==
    IF Len(group) = 0 THEN RInt(0)
    ELSE LET pA == Rat(CountA(group), Len(group))
             pB == RSub(RInt(1), pA)
         IN  RSub(RInt(1), RAdd(RMul(pA, pA), pB))

giniImpurity(group) ==
    IF Len(group) = 0 THEN RInt(0)
    ELSE LET pA == Rat(CountA(group), Len(group))
             pB == RSub(RInt(1), pA)
         IN  RSub(RInt(1), RAdd(RMul(pA, pA), RMul(pB, pB)))

entropy(group) ==
    IF Len(group) = 0 THEN RInt(0)
    ELSE LET pA == Rat(CountA(group), Len(group))
             pB == RSub(RInt(1), pA)
             log2A == IF pA = RInt(0) THEN RInt(0) ELSE log2(pA)
             log2B == IF pB = RInt(0) THEN RInt(0) ELSE log2(pB)
         IN  RNeg(RAdd(RMul(pA, log2A), RMul(pB, log2B)))

calculateCost(s, left, right) ==
    LET total == Len(left) + Len(right)
        wLeft == Rat(Len(left), total)
        wRight == Rat(Len(right), total)
    IN  IF s.criterion = "gini"
        THEN RAdd(RMul(wLeft, giniImpurity(left)), RMul(wRight, giniImpurity(right)))
        ELSE RAdd(RMul(wLeft, entropy(left)), RMul(wRight, entropy(right)))

\* [...data].sort((a, b) => a[feature] - b[feature]): stable insertion
RECURSIVE InsertSorted(_, _, _)
InsertSorted(sorted, p, feature) ==
    IF sorted = <<>> THEN <<p>>
    ELSE IF Coord(p, feature) < Coord(Head(sorted), feature)
         THEN <<p>> \o sorted
         ELSE <<Head(sorted)>> \o InsertSorted(Tail(sorted), p, feature)

RECURSIVE SortBy(_, _)
SortBy(data, feature) ==
    IF data = <<>> THEN <<>>
    ELSE InsertSorted(SortBy(SubSeq(data, 1, Len(data) - 1), feature),
                      data[Len(data)], feature)

LeftGroup(data, split) ==
    SelectSeq(data, LAMBDA p : RLeq(RInt(Coord(p, split.feature)), split.value))
RightGroup(data, split) ==
    SelectSeq(data, LAMBDA p : RLess(split.value, RInt(Coord(p, split.feature))))

\* a variant that also replaces the kept split on a tie
ImprovesOrTies(impurity, best) == best = Null \/ RLeq(impurity, best.impurity)
\* if (impurity < bestGini), bestGini being Infinity while best is Null
Improves(impurity, best) == best = Null \/ RLess(impurity, best.impurity)

\* the inner loop of findBestSplit over sortedData, from index i on;
\* best is Null or [impurity, split]
RECURSIVE ScanThresholds(_, _, _, _, _, _)
ScanThresholds(s, data, sortedData, feature, i, best) ==
    IF i > Len(sortedData) - 1 THEN best
    ELSE LET p1 == sortedData[i]
             p2 == sortedData[i + 1]
         IN  IF Coord(p1, feature) = Coord(p2, feature)
             THEN ScanThresholds(s, data, sortedData, feature, i + 1, best)
             ELSE LET split == [feature |-> feature,
                                value |-> Rat(Coord(p1, feature) + Coord(p2, feature), 2)]
                  IN  Bind(calculateCost(s, LeftGroup(data, split), RightGroup(data, split)),
                           LAMBDA impurity :
                             IF Improves(impurity, best)
                             THEN ScanThresholds(s, data, sortedData, feature, i + 1,
                                      [impurity |-> impurity, split |-> split])
                             ELSE ScanThresholds(s, data, sortedData, feature, i + 1, best))

\* findBestSplit: Null, or [impurity, split] of the kept candidate
RECURSIVE ScanFeatures(_, _, _, _)
ScanFeatures(s, data, f, best) ==
    IF f > Len(DtFeatures) THEN best
    ELSE Bind(SortBy(data, DtFeatures[f]), LAMBDA sortedData :
           Bind(ScanThresholds(s, data, sortedData, DtFeatures[f], 1, best),
                LAMBDA found : ScanFeatures(s, data, f + 1, found)))

\* a variant that never finds a split
findNoSplit(s, data) == Null
findBestSplit(s, data) ==
    LET best == ScanFeatures(s, data, 1, Null)
    IN  IF best = Null THEN Null ELSE best.split

NewNode(data) ==
    LET countA == CountA(data)
        countB == Len(data) - countA
    IN  [left |-> Null, right |-> Null, splitFeature |-> Null, splitValue |-> Null,
         predictedClass |-> IF countA >= countB THEN "A" ELSE "B",
         isLeaf |-> FALSE, samples |-> Len(data),
         classCounts |-> [A |-> countA, B |-> countB]]

\* a variant that lets a node at depth maxDepth split once more
StopsPastMaxDepth(s, node, depth) ==
    \/ depth > s.maxDepth
    \/ node.classCounts.A = 0
    \/ node.classCounts.B = 0
    \/ node.samples < 2
\* the first termination test of buildTree
StopsEarly(s, node, depth) ==
    \/ depth >= s.maxDepth
    \/ node.classCounts.A = 0
    \/ node.classCounts.B = 0
    \/ node.samples < 2

RECURSIVE buildTree(_, _, _)
buildTree(s, data, depth) ==
    Bind(NewNode(data), LAMBDA node :
      IF StopsEarly(s, node, depth)
      THEN [node EXCEPT !.isLeaf = TRUE]
      ELSE Bind(findBestSplit(s, data), LAMBDA split :
             IF split = Null
             THEN [node EXCEPT !.isLeaf = TRUE]
             ELSE LET split1 == [node EXCEPT !.splitFeature = split.feature,
                                             !.splitValue = split.value]
                      leftData == LeftGroup(data, split)
                      rightData == RightGroup(data, split)
                  IN  IF Len(leftData) = 0 \/ Len(rightData) = 0
                      THEN [split1 EXCEPT !.isLeaf = TRUE]
                      ELSE [split1 EXCEPT
                              !.left = buildTree(s, leftData, depth + 1),
                              !.right = buildTree(s, rightData, depth + 1)]))

\* predict with the two branches exchanged
RECURSIVE predictOtherBranch(_, _)
predictOtherBranch(node, point) ==
    IF node.isLeaf THEN node.predictedClass
    ELSE IF RLeq(RInt(Coord(point, node.splitFeature)), node.splitValue)
         THEN predictOtherBranch(node.right, point)
         ELSE predictOtherBranch(node.left, point)

RECURSIVE predict(_, _)
predict(node, point) ==
    IF node.isLeaf THEN node.predictedClass
    ELSE IF RLeq(RInt(Coord(point, node.splitFeature)), node.splitValue)
         THEN predict(node.left, point)
         ELSE predict(node.right, point)

\* the count of calculateAccuracy taken of the points predicted wrongly
DtCorrectMisses(tree, data) ==
    Cardinality({i \in DOMAIN data : predict(tree, data[i]) # data[i].label})

\* correct of calculateAccuracy
DtCorrect(tree, data) ==
    Cardinality({i \in DOMAIN data : predict(tree, data[i]) = data[i].label})

\* Math.round((correct / data.length) * 100)
calculateAccuracy(tree, data) ==
    (200 * DtCorrect(tree, data) + Len(data)) \div (2 * Len(data))

\* updateModel that leaves the tree it finds
updateModelKeepsTree(s) == s

\* updateModel: the tree is rebuilt from state.data
updateModel(s) == [s EXCEPT !.tree = buildTree(s, s.data, 0)]

\* generateRandomData: label of the n-th push (two of A, then two of B, per round)
PushLabel(n) == IF (n - 1) % 4 < 2 THEN "A" ELSE "B"

\* generateRandomData: number of pushes, 4 in each round i < PER_CLASS / 2
DtNumPoints == 4 * ((DtPointsPerClass + 1) \div 2)

dtGenerateStart(s) == [s EXCEPT !.data = <<>>]

dtGeneratePush(s, p) ==
    [s EXCEPT !.data = Append(s.data,
        [x |-> p.x, y |-> p.y, label |-> PushLabel(Len(s.data) + 1)])]

DepthSliderInput ==
    /\ dtPc = "idle"
    /\ \E v \in 1..DtMaxDepth : dt' = updateModel([dt EXCEPT !.maxDepth = v])
    /\ UNCHANGED <<dtPc, dtOthers>>

CriterionSelectChange ==
    /\ dtPc = "idle"
    /\ \E c \in DtCriteria : dt' = updateModel([dt EXCEPT !.criterion = c])
    /\ UNCHANGED <<dtPc, dtOthers>>

\* randomBtn click: generateRandomData() up to its loop
RandomBtnClick ==
    /\ dtPc = "idle"
    /\ dt' = dtGenerateStart(dt)
    /\ dtPc' = "generating"
    /\ UNCHANGED dtOthers

\* resetBtn click: defaults restored, then generateRandomData() up to its loop
ResetBtnClick ==
    /\ dtPc = "idle"
    /\ dt' = dtGenerateStart([dt EXCEPT !.maxDepth = 3, !.criterion = "gini"])
    /\ dtPc' = "generating"
    /\ UNCHANGED dtOthers

\* One push of generateRandomData.  The handler runs to completion, so no
\* other event is taken before the loop has ended; the last push carries the
\* updateModel() that every caller of generateRandomData runs next.
DtGenerateLoop ==
    /\ dtPc = "generating"
    /\ \E p \in DtPixels :
         LET t == dtGeneratePush(dt, p)
         IN  IF Len(t.data) < DtNumPoints
             THEN dt' = t /\ dtPc' = dtPc
             ELSE dt' = updateModel(t) /\ dtPc' = "idle"
    /\ UNCHANGED dtOthers

\* findBestSplit(data) applied to a data set that awaits it
CallFindBestSplit ==
    /\ dtCall.op = "pending"
    /\ dtCall' = [op |-> "findBestSplit", criterion |-> dtCall.criterion,
                  data |-> dtCall.data,
                  result |-> findBestSplit([criterion |-> dtCall.criterion],
                                           dtCall.data)]
    /\ UNCHANGED dtCallOthers

\* buildTree and calculateAccuracy applied to a data set that awaits them,
\* with state.maxDepth as given and with one level more
CallTrainingAccuracy ==
    /\ dtCall.op = "pending"
    /\ LET s == [criterion |-> dtCall.criterion, maxDepth |-> dtCall.maxDepth]
       IN  dtCall' =
             Bind(buildTree(s, dtCall.data, 0), LAMBDA shallow :
               Bind(buildTree([s EXCEPT !.maxDepth = s.maxDepth + 1],
                              dtCall.data, 0), LAMBDA deeper :
                 [op |-> "accuracy", criterion |-> dtCall.criterion,
                  maxDepth |-> dtCall.maxDepth, data |-> dtCall.data,
                  shallow |-> shallow, deeper |-> deeper,
                  correct |-> <<DtCorrect(shallow, dtCall.data),
                                DtCorrect(deeper, dtCall.data)>>,
                  accuracy |-> <<calculateAccuracy(shallow, dtCall.data),
                                 calculateAccuracy(deeper, dtCall.data)>>]))
    /\ UNCHANGED dtCallOthers

\* giniImpurity(group) applied to a group that awaits it
CallGiniImpurity ==
    /\ dtCall.op = "pending"
    /\ dtCall' = [op |-> "giniImpurity", group |-> dtCall.group,
                  result |-> giniImpurity(dtCall.group)]
    /\ UNCHANGED dtCallOthers

DtNext ==
    \/ DepthSliderInput
    \/ CriterionSelectChange
    \/ RandomBtnClick
    \/ ResetBtnClick
    \/ DtGenerateLoop

(***************************************************************************)
(* Decision tree: claims                                                   *)
(***************************************************************************)
\* the page is at rest with a tree built by updateModel
DtBuilt == dtPc = "idle" /\ dt.tree # Null

\* the points a node holds: those of its parent on its side of the threshold
SideOf(data, node, side) ==
    IF side = "left"
    THEN SelectSeq(data, LAMBDA p :
             RLeq(RInt(Coord(p, node.splitFeature)), node.splitValue))
    ELSE SelectSeq(data, LAMBDA p :
             RLess(node.splitValue, RInt(Coord(p, node.splitFeature))))

\* every node of a tree, with the points it holds and its depth
RECURSIVE TreeVisits(_, _, _)
TreeVisits(node, data, depth) ==
    IF node.isLeaf
    THEN << [node |-> node, data |-> data, depth |-> depth] >>
    ELSE << [node |-> node, data |-> data, depth |-> depth] >>
         \o TreeVisits(node.left, SideOf(data, node, "left"), depth + 1)
         \o TreeVisits(node.right, SideOf(data, node, "right"), depth + 1)

DtVisits == TreeVisits(dt.tree, dt.data, 0)

SamePosition(data) ==
    \A i, j \in DOMAIN data : data[i].x = data[j].x /\ data[i].y = data[j].y

Pure(data) == CountA(data) = 0 \/ CountA(data) = Len(data)

\* the candidate thresholds of a node: the midpoints of neighbouring values
AxisValues(data, f) == {Coord(data[i], f) : i \in DOMAIN data}
Midpoints(data, f) ==
    {Rat(ab[1] + ab[2], 2) :
        ab \in {ab \in AxisValues(data, f) \X AxisValues(data, f) :
                  /\ ab[1] < ab[2]
                  /\ ~\E c \in AxisValues(data, f) : ab[1] < c /\ c < ab[2]}}
Candidates(data) ==
    UNION {{[feature |-> f, value |-> v] : v \in Midpoints(data, f)} : f \in {"x", "y"}}

CandLeft(data, c) ==
    SelectSeq(data, LAMBDA p : RLeq(RInt(Coord(p, c.feature)), c.value))
CandRight(data, c) ==
    SelectSeq(data, LAMBDA p : RLess(c.value, RInt(Coord(p, c.feature))))
CandCost(s, data, c) == calculateCost(s, CandLeft(data, c), CandRight(data, c))

\* scan order: x before y, thresholds ascending
ScannedBefore(c1, c2) ==
    \/ c1.feature = "x" /\ c2.feature = "y"
    \/ c1.feature = c2.feature /\ RLess(c1.value, c2.value)

FirstMinimal(s, data, c) ==
    /\ c \in Candidates(data)
    /\ \A o \in Candidates(data) :
         /\ ~RLess(CandCost(s, data, o), CandCost(s, data, c))
         /\ CandCost(s, data, o) = CandCost(s, data, c) => ~ScannedBefore(o, c)

BestSplitLeavesSideEmpty(s, data) ==
    \E c \in Candidates(data) :
        /\ FirstMinimal(s, data, c)
        /\ Len(CandLeft(data, c)) = 0 \/ Len(CandRight(data, c)) = 0

\* C6: in a built tree a node is a leaf exactly when its depth has reached
\* maxDepth, or it holds one class only, or fewer than 2 points, or its points
\* admit no split, or the best split leaves a side empty; every other node has
\* two children with at least one point each; no node is deeper than maxDepth.
C6_LeafExactlyWhenStopped ==
    DtBuilt =>
      \A i \in DOMAIN DtVisits :
        LET v == DtVisits[i]
            stopped == \/ v.depth >= dt.maxDepth
                       \/ v.node.classCounts.A = 0
                       \/ v.node.classCounts.B = 0
                       \/ Len(v.data) < 2
                       \/ Candidates(v.data) = {}
                       \/ BestSplitLeavesSideEmpty(dt, v.data)
        IN  /\ v.node.isLeaf <=> stopped
            /\ v.node.samples = Len(v.data)
            /\ v.node.classCounts.A = CountA(v.data)
            /\ v.node.classCounts.B = Len(v.data) - CountA(v.data)
            /\ ~v.node.isLeaf =>
                 /\ v.node.left.samples >= 1
                 /\ v.node.right.samples >= 1
                 /\ v.node.left.samples + v.node.right.samples = v.node.samples
            /\ v.depth <= dt.maxDepth

\* C6 witness: a tree with an internal root, and a leaf that is impure and
\* could be split but sits at depth maxDepth
C6_Witness ==
    /\ DtBuilt
    /\ ~dt.tree.isLeaf
    /\ \E i \in DOMAIN DtVisits :
         /\ DtVisits[i].node.isLeaf
         /\ DtVisits[i].depth = dt.maxDepth
         /\ ~Pure(DtVisits[i].data)
         /\ Candidates(DtVisits[i].data) # {}

\* C7: findBestSplit returns no split exactly when all the points share one
\* x and one y; otherwise it returns a midpoint between neighbouring distinct
\* values of an axis whose weighted impurity (value <= threshold against >)
\* is minimal over the candidates of both axes, and among candidates of that
\* impurity the first in scan order (x before y, thresholds ascending).
C7_BestSplitIsFirstMinimum ==
    dtCall.op = "findBestSplit" =>
      /\ dtCall.result = Null <=> SamePosition(dtCall.data)
      /\ dtCall.result # Null =>
           FirstMinimal(dtCall, dtCall.data, dtCall.result)

\* C7 witness: findBestSplit returned a threshold although a later threshold
\* of the same axis, and a threshold of the other axis, cost the same
C7_Witness ==
    /\ dtCall.op = "findBestSplit"
    /\ dtCall.result # Null
    /\ \E o \in Candidates(dtCall.data) :
         /\ o.feature = dtCall.result.feature
         /\ o # dtCall.result
         /\ CandCost(dtCall, dtCall.data, o) = CandCost(dtCall, dtCall.data, dtCall.result)
    /\ \E o \in Candidates(dtCall.data) :
         /\ o.feature # dtCall.result.feature
         /\ CandCost(dtCall, dtCall.data, o) = CandCost(dtCall, dtCall.data, dtCall.result)

\* C8: every leaf of a built tree is pure, or lies at depth maxDepth, or holds
\* fewer than 2 points, or holds points that all share one x and one y.
C8_LeafPureOrForced ==
    DtBuilt =>
      \A i \in DOMAIN DtVisits :
        DtVisits[i].node.isLeaf =>
          \/ DtVisits[i].node.classCounts.A = 0
          \/ DtVisits[i].node.classCounts.B = 0
          \/ DtVisits[i].depth = dt.maxDepth
          \/ DtVisits[i].node.samples < 2
          \/ SamePosition(DtVisits[i].data)

\* C8 witness: a tree holding a pure leaf above maxDepth and an impure leaf
\* above maxDepth whose points coincide
C8_Witness ==
    /\ DtBuilt
    /\ \E i \in DOMAIN DtVisits :
         /\ DtVisits[i].node.isLeaf
         /\ DtVisits[i].depth < dt.maxDepth
         /\ Pure(DtVisits[i].data)
    /\ \E i \in DOMAIN DtVisits :
         /\ DtVisits[i].node.isLeaf
         /\ DtVisits[i].depth < dt.maxDepth
         /\ ~Pure(DtVisits[i].data)
         /\ SamePosition(DtVisits[i].data)

\* the leaves of the built tree whose points include p
LeavesHolding(p) ==
    {i \in DOMAIN DtVisits :
        /\ DtVisits[i].node.isLeaf
        /\ \E k \in DOMAIN DtVisits[i].data : DtVisits[i].data[k] = p}

MajorityClass(data) ==
    IF CountA(data) >= Len(data) - CountA(data) THEN "A" ELSE "B"

\* C18: in a built tree every training point lies in exactly one leaf, that
\* leaf recorded the counts of the points it holds when it was built, and
\* predict returns for the point the majority class of that leaf, class A
\* when the two classes are level.
C18_PredictReturnsLeafMajority ==
    DtBuilt =>
        \A n \in DOMAIN dt.data :
            /\ Cardinality(LeavesHolding(dt.data[n])) = 1
            /\ \A i \in LeavesHolding(dt.data[n]) :
                 /\ DtVisits[i].node.samples = Len(DtVisits[i].data)
                 /\ DtVisits[i].node.classCounts.A = CountA(DtVisits[i].data)
                 /\ DtVisits[i].node.classCounts.B =
                        Len(DtVisits[i].data) - CountA(DtVisits[i].data)
                 /\ predict(dt.tree, dt.data[n]) = MajorityClass(DtVisits[i].data)

\* a tree with a split, where a point of class B lies in a leaf below the root
\* that holds as many points of A as of B, and predict gives A for it
C18_Witness ==
    /\ DtBuilt
    /\ ~dt.tree.isLeaf
    /\ \E n \in DOMAIN dt.data :
         /\ dt.data[n].label = "B"
         /\ predict(dt.tree, dt.data[n]) = "A"
         /\ \E i \in LeavesHolding(dt.data[n]) :
              2 * CountA(DtVisits[i].data) = Len(DtVisits[i].data)

\* C19: whenever the page is at rest, after the depth slider, the criterion
\* select, the random-data button or the reset button, state.tree is the tree
\* buildTree gives for the present data, maxDepth and criterion.
C19_TreeIsBuiltFromCurrentState ==
    dtPc = "idle" => dt.tree = buildTree(dt, dt.data, 0)

\* the slider and the select have left the defaults, and the tree at rest is
\* not the one the defaults give on the same data
C19_Witness ==
    /\ dtPc = "idle"
    /\ dt.maxDepth = 1
    /\ dt.criterion = "entropy"
    /\ ~dt.tree.isLeaf
    /\ dt.tree # buildTree([dt EXCEPT !.maxDepth = 3, !.criterion = "gini"],
                           dt.data, 0)

(***************************************************************************)
(*                     SUPPORT VECTOR MACHINE (SMO)                        *)
(*                                                                         *)
(* Numbers are decimal fixed-point, in units of 10^-8, truncated toward    *)
(* zero; products and quotients are formed limb by limb so that no         *)
(* intermediate result leaves the 32-bit range.  NaN is a value apart.     *)
(***************************************************************************)
FxOne == 10^8
FxLimb == 10^4
NaN == -(2^30 + (2^30 - 1))

FxSign(a) == IF a < 0 THEN -1 ELSE 1

\* |a| * |b| for fixed-point a, b >= 0
FxMulAbs(a, b) ==
    LET a2 == a \div FxOne
        a1 == (a \div FxLimb) % FxLimb
        a0 == a % FxLimb
        b2 == b \div FxOne
        b1 == (b \div FxLimb) % FxLimb
        b0 == b % FxLimb
    IN  a2 * b2 * FxOne
        + (a2 * b1 + a1 * b2) * FxLimb
        + (a2 * b0 + a1 * b1 + a0 * b2)
        + ((a1 * b0 + a0 * b1) + ((a0 * b0) \div FxLimb)) \div FxLimb

FxMul(a, b) == FxSign(a) * FxSign(b) * FxMulAbs(Abs(a), Abs(b))

\* the first digits decimal places of r / d, for 0 <= r < d
RECURSIVE FxLongDiv(_, _, _)
FxLongDiv(r, d, digits) ==
    IF digits = 0 THEN 0
    ELSE ((r * 10) \div d) * 10^(digits - 1) + FxLongDiv((r * 10) % d, d, digits - 1)

\* n / d as a fixed-point number, for integers n >= 0, d > 0
FxRatio(n, d) == (n \div d) * FxOne + FxLongDiv(n % d, d, 8)

\* a / b; a quotient of 16 or more in size is returned as 16: the only
\* quotient taken from numbers of that size is clipped to [L, H] at once
FxDiv(a, b) ==
    IF Abs(a) \div Abs(b) >= 16
    THEN FxSign(a) * FxSign(b) * 16 * FxOne
    ELSE FxSign(a) * FxSign(b) * FxRatio(Abs(a), Abs(b))

FxHalf(a) == FxSign(a) * (Abs(a) \div 2)
FxMin(a, b) == IF a < b THEN a ELSE b
FxMax(a, b) == IF a > b THEN a ELSE b

\* the series 1 - r/1 (1 - r/2 (1 - r/3 (...))) of exp(-r), from term k on
RECURSIVE FxExpSeries(_, _)
FxExpSeries(r, k) ==
    IF k > 6 THEN FxOne
    ELSE FxOne - FxMul(r, FxExpSeries(r, k + 1)) \div k

RECURSIVE FxSquare(_, _)
FxSquare(a, times) ==
    IF times = 0 THEN a ELSE FxSquare(FxMul(a, a), times - 1)

\* Math.exp(-t) for t >= 0: the series of exp(-t/16) to the sixth power,
\* squared four times
FxExpNeg(t) == FxSquare(FxExpSeries(t \div 16, 1), 4)

SvCanvasWidth == 600
SvCanvasHeight == 400
SvTol == FxOne \div 10^4          \* tol = 1e-4
SvMinChange == FxOne \div 10^5    \* 1e-5
SvGamma == 10

\* kernel(v1, v2), reading state.kernel
kernel(s, v1, v2) ==
    LET scale == IF SvCanvasWidth > SvCanvasHeight THEN SvCanvasWidth
                 ELSE SvCanvasHeight
    IN  IF s.kernel = "linear"
        THEN FxMul(FxRatio(v1.x, scale), FxRatio(v2.x, scale))
             + FxMul(FxRatio(v1.y, scale), FxRatio(v2.y, scale))
        ELSE LET dx == FxSign(v1.x - v2.x) * FxRatio(Abs(v1.x - v2.x), scale)
                 dy == FxSign(v1.y - v2.y) * FxRatio(Abs(v1.y - v2.y), scale)
                 distSq == FxMul(dx, dx) + FxMul(dy, dy)
             IN  FxExpNeg(SvGamma * distSq)

\* state.alphas[i] > 0: false for an index past the array and for NaN
AlphaPositive(s, i) ==
    i <= Len(s.alphas) /\ s.alphas[i] # NaN /\ s.alphas[i] > 0

\* the loop of decisionFunction(point) from index i on
RECURSIVE DecisionSum(_, _, _)
DecisionSum(s, point, i) ==
    IF i > Len(s.data) THEN 0
    ELSE (IF AlphaPositive(s, i)
          THEN FxMul(s.alphas[i] * s.data[i].label, kernel(s, s.data[i], point))
          ELSE 0)
         + DecisionSum(s, point, i + 1)

decisionFunction(s, point) ==
    IF s.b = NaN THEN NaN ELSE DecisionSum(s, point, 1) + s.b

\* The body of the for loop of trainSVM for one i, with j the index drawn
\* for it (indices from 1).  C is the constant the call captured, changed
\* the counter numChangedAlphas.  The result is the outcome, the state and
\* the counter; outcome "error" is an exception on the way to the catch.
examine(s, C, changed, i, j) ==
    IF i > Len(s.data)
    THEN [outcome |-> "error", state |-> s, changed |-> changed]
    ELSE
    LET f_i == decisionFunction(s, s.data[i])
        y_i == s.data[i].label
        E_i == f_i - y_i * FxOne
        defined_i == i <= Len(s.alphas) /\ s.alphas[i] # NaN
        violates ==
            /\ f_i # NaN
            /\ defined_i
            /\ \/ y_i * E_i < -SvTol /\ s.alphas[i] < C
               \/ y_i * E_i > SvTol /\ s.alphas[i] > 0
    IN  IF ~violates
        THEN [outcome |-> "none", state |-> s, changed |-> changed]
        ELSE IF j > Len(s.data)
        THEN [outcome |-> "error", state |-> s, changed |-> changed]
        ELSE
        LET y_j == s.data[j].label
            E_j == decisionFunction(s, s.data[j]) - y_j * FxOne
            alpha_i_old == s.alphas[i]
            eta == 2 * kernel(s, s.data[i], s.data[j])
                   - kernel(s, s.data[i], s.data[i])
                   - kernel(s, s.data[j], s.data[j])
        IN  IF j > Len(s.alphas)
            THEN \* alpha_j_old is undefined: L and H are NaN, L === H is false
                 IF eta >= 0
                 THEN [outcome |-> "eta", state |-> s, changed |-> changed]
                 ELSE [outcome |-> "changed",
                       state |-> [s EXCEPT !.alphas[i] = NaN, !.b = NaN],
                       changed |-> changed + 1]
            ELSE
            LET alpha_j_old == s.alphas[j]
                L == IF y_i # y_j
                     THEN FxMax(0, alpha_j_old - alpha_i_old)
                     ELSE FxMax(0, alpha_i_old + alpha_j_old - C)
                H == IF y_i # y_j
                     THEN FxMin(C, C + alpha_j_old - alpha_i_old)
                     ELSE FxMin(C, alpha_i_old + alpha_j_old)
                alpha_j == FxMin(H, FxMax(L,
                               alpha_j_old - FxDiv(y_j * (E_i - E_j), eta)))
                alpha_i == alpha_i_old + y_i * y_j * (alpha_j_old - alpha_j)
                K_ii == kernel(s, s.data[i], s.data[i])
                K_ij == kernel(s, s.data[i], s.data[j])
                K_jj == kernel(s, s.data[j], s.data[j])
                b1 == s.b - E_i - y_i * FxMul(alpha_i - alpha_i_old, K_ii)
                          - y_j * FxMul(alpha_j - alpha_j_old, K_ij)
                b2 == s.b - E_j - y_i * FxMul(alpha_i - alpha_i_old, K_ij)
                          - y_j * FxMul(alpha_j - alpha_j_old, K_jj)
                b == IF 0 < alpha_i /\ alpha_i < C THEN b1
                     ELSE IF 0 < alpha_j /\ alpha_j < C THEN b2
                     ELSE FxHalf(b1 + b2)
            IN  IF L = H
                THEN [outcome |-> "L=H", state |-> s, changed |-> changed]
                ELSE IF eta >= 0
                THEN [outcome |-> "eta", state |-> s, changed |-> changed]
                ELSE IF Abs(alpha_j - alpha_j_old) < SvMinChange
                THEN [outcome |-> "small",
                      state |-> [s EXCEPT !.alphas[j] = alpha_j],
                      changed |-> changed]
                ELSE [outcome |-> "changed",
                      state |-> [s EXCEPT !.alphas[i] = alpha_i,
                                          !.alphas[j] = alpha_j,
                                          !.b = b],
                      changed |-> changed + 1]

SvPointsA == 2         \* points of group A, both kinds of data (20 in the code)
SvPointsLinearB == 2   \* points of group B, linear data (20 in the code)
SvPointsRbfB == 3      \* points of group B, ring data (30 in the code)
SvMaxPasses == 1       \* maxPasses (10 in the code)
SvMaxIter == 2         \* maxIter (2000 in the code)
SvMaxPending == 1      \* training callbacks that may be pending at once

SvKernels == {"linear", "rbf"}
\* the values the C slider offers, next to the initial 1.0
SvSliderC == {FxOne \div 2, FxOne}

\* where Math.random() may put a point of each group
SvLinearA == {[x |-> 280, y |-> 50], [x |-> 60, y |-> 249]}
SvLinearB == {[x |-> 460, y |-> 249]}
SvRbfA == {[x |-> 300, y |-> 200]}
SvRbfB == {[x |-> 420, y |-> 200]}

SvState0 == [kernel |-> "linear", C |-> FxOne, data |-> <<>>, alphas |-> <<>>,
             b |-> 0, isTrained |-> FALSE]

NoRun == [op |-> "none"]
NoExam == [outcome |-> "idle"]

\* generateRandomData(type): the number of pushes
SvNumPoints(type) ==
    IF type = "linear" THEN SvPointsA + SvPointsLinearB ELSE SvPointsA + SvPointsRbfB

\* generateRandomData(type): the points the n-th push may add
SvPushChoices(type, n) ==
    LET where == IF type = "linear"
                 THEN IF n <= SvPointsA THEN SvLinearA ELSE SvLinearB
                 ELSE IF n <= SvPointsA THEN SvRbfA ELSE SvRbfB
    IN  {[x |-> p.x, y |-> p.y, label |-> IF n <= SvPointsA THEN 1 ELSE -1] :
            p \in where}

\* trainSVM() up to its setTimeout
trainSVMStart(s) ==
    [s EXCEPT !.alphas = [k \in 1..Len(s.data) |-> 0], !.b = 0]

\* what the callback of trainSVM keeps of the call that scheduled it
trainSVMClosure(s) == [N |-> Len(s.data), C |-> s.C]

\* let j = Math.floor(Math.random() * (N - 1)); if (j >= i) j++;
JChoices(i, N) == IF N = 1 THEN {2} ELSE (1..N) \ {i}

\* kernelSelect change: generateRandomData(state.kernel) up to its loop
SvKernelSelectChange ==
    /\ svPc = "idle"
    /\ \E k \in SvKernels \ {svm.kernel} :
         svm' = [svm EXCEPT !.kernel = k, !.data = <<>>]
    /\ svPc' = "kernelSelect"
    /\ svLast' = NoExam
    /\ UNCHANGED <<svTimers, svRun, svBy, svOthers>>

cSliderInput ==
    /\ svPc = "idle"
    /\ \E c \in SvSliderC \ {svm.C} :
         svm' = [svm EXCEPT !.C = c, !.isTrained = FALSE]
    /\ svLast' = NoExam
    /\ UNCHANGED <<svPc, svTimers, svRun, svBy, svOthers>>

\* trainBtn click: trainSVM() resets alphas and b at once and defers the rest
SvTrainBtnClick ==
    /\ svPc = "idle"
    /\ Len(svTimers) < SvMaxPending
    /\ svm' = trainSVMStart(svm)
    /\ svTimers' = Append(svTimers, trainSVMClosure(svm))
    /\ svBy' = NoRun
    /\ svLast' = NoExam
    /\ UNCHANGED <<svPc, svRun, svOthers>>

\* randomBtn click: generateRandomData(state.kernel) up to its loop
SvRandomBtnClick ==
    /\ svPc = "idle"
    /\ svm' = [svm EXCEPT !.data = <<>>]
    /\ svPc' = "randomBtn"
    /\ svLast' = NoExam
    /\ UNCHANGED <<svTimers, svRun, svBy, svOthers>>

SvResetBtnClick ==
    /\ svPc = "idle"
    /\ svm' = [svm EXCEPT !.data = <<>>, !.alphas = <<>>, !.b = 0,
                          !.isTrained = FALSE]
    /\ svBy' = NoRun
    /\ svLast' = NoExam
    /\ UNCHANGED <<svPc, svTimers, svRun, svOthers>>

\* One push of generateRandomData.  The handler runs to completion: no
\* other event is taken before the loop has ended, and the last push carries
\* what the handler does after the call (isTrained = false, except on load).
SvGenerateLoop ==
    /\ svPc \in {"DOMContentLoaded", "kernelSelect", "randomBtn"}
    /\ \E p \in SvPushChoices(svm.kernel, Len(svm.data) + 1) :
         LET t == [svm EXCEPT !.data = Append(svm.data, p)]
         IN  IF Len(t.data) < SvNumPoints(svm.kernel)
             THEN svm' = t /\ svPc' = svPc
             ELSE /\ svm' = IF svPc = "DOMContentLoaded" THEN t
                            ELSE [t EXCEPT !.isTrained = FALSE]
                  /\ svPc' = "idle"
    /\ svLast' = NoExam
    /\ UNCHANGED <<svTimers, svRun, svBy, svOthers>>

\* all of state.alphas and state.b are zero, one alpha for each point
ZeroStart(s) ==
    /\ Len(s.alphas) = Len(s.data)
    /\ \A k \in DOMAIN s.alphas : s.alphas[k] = 0
    /\ s.b = 0

\* The callback of the oldest pending setTimeout starts; svBy notes what
\* the run starts from.
SvTimerFires ==
    /\ svPc = "idle"
    /\ svTimers # <<>>
    /\ svTimers' = Tail(svTimers)
    /\ svRun' = [N |-> Head(svTimers).N, C |-> Head(svTimers).C, passes |-> 0,
                 iter |-> 0, i |-> 1, numChangedAlphas |-> 0,
                 start |-> svm.alphas, still |-> 0]
    /\ svPc' = "training"
    /\ svBy' = [op |-> "run", zeroStart |-> ZeroStart(svm), data |-> svm.data,
                kernel |-> svm.kernel, C |-> Head(svTimers).C, complete |-> FALSE]
    /\ svLast' = NoExam
    /\ UNCHANGED <<svm, svOthers>>

\* One round of the for loop of the callback; an exception ends the callback
\* in its catch.
SvExamine ==
    /\ svPc = "training"
    /\ svRun.i <= svRun.N
    /\ \E j \in JChoices(svRun.i, svRun.N) :
         LET r == examine(svm, svRun.C, svRun.numChangedAlphas, svRun.i, j)
         IN  /\ svLast' = [outcome |-> r.outcome, alphas |-> svm.alphas,
                           b |-> svm.b, changed |-> svRun.numChangedAlphas]
             /\ svm' = r.state
             /\ IF r.outcome = "error"
                THEN svRun' = NoRun /\ svPc' = "idle"
                ELSE /\ svRun' = [svRun EXCEPT !.i = svRun.i + 1,
                                               !.numChangedAlphas = r.changed]
                     /\ svPc' = svPc
    /\ UNCHANGED <<svTimers, svBy, svOthers>>

\* the sweeps on end, the one that ends now included, that have each left
\* state.alphas as they found them (svRun.start: the alphas the sweep found)
StillSweeps == IF svm.alphas = svRun.start THEN svRun.still + 1 ELSE 0

\* The end of a sweep: the pass counter, the while test, and past the loop
\* state.isTrained = true.
SvEndSweep ==
    /\ svPc = "training"
    /\ svRun.i > svRun.N
    /\ LET passes == IF svRun.numChangedAlphas = 0 THEN svRun.passes + 1 ELSE 0
           iter == svRun.iter + 1
       IN  IF passes < SvMaxPasses /\ iter < SvMaxIter
           THEN /\ svRun' = [svRun EXCEPT !.passes = passes, !.iter = iter,
                                          !.i = 1, !.numChangedAlphas = 0,
                                          !.start = svm.alphas,
                                          !.still = StillSweeps]
                /\ UNCHANGED <<svm, svPc, svBy>>
           ELSE /\ svm' = [svm EXCEPT !.isTrained = TRUE]
                /\ svRun' = NoRun
                /\ svPc' = "idle"
                /\ svBy' = [svBy EXCEPT !.complete = TRUE]
    /\ svLast' = NoExam
    /\ UNCHANGED <<svTimers, svOthers>>

SvNext ==
    \/ SvKernelSelectChange
    \/ cSliderInput
    \/ SvTrainBtnClick
    \/ SvRandomBtnClick
    \/ SvResetBtnClick
    \/ SvGenerateLoop
    \/ SvTimerFires
    \/ SvExamine
    \/ SvEndSweep

(***************************************************************************)
(* SVM: claims                                                             *)
(***************************************************************************)
\* C9: when the pair examined last was skipped (L = H, eta >= 0, or a change
\* of alpha_j below 1e-5), the alphas and b are what they were before the
\* pair was examined and the counter of changed alphas has not moved.
C9_SkippedPairLeavesStateAlone ==
    svLast.outcome \in {"L=H", "eta", "small"} =>
      /\ svm.alphas = svLast.alphas
      /\ svm.b = svLast.b
      /\ svRun.numChangedAlphas = svLast.changed

\* C10: whenever isTrained holds and no handler is running, there is one
\* alpha for each point of the data, and the alphas come from one completed
\* run that started from zero alphas and b = 0 on the present data with the
\* present kernel and C.
C10_TrainedMeansOneCleanRunOnPresentData ==
    svPc = "idle" /\ svm.isTrained =>
      /\ Len(svm.alphas) = Len(svm.data)
      /\ svBy.op = "run"
      /\ svBy.complete
      /\ svBy.zeroStart
      /\ svBy.data = svm.data
      /\ svBy.kernel = svm.kernel
      /\ svBy.C = svm.C

\* the callback of trainSVM is running its loop
SvTraining == svPc = "training"

\* C23: a training run never starts a sweep past maxIter; the step that ends
\* a run comes at the end of a sweep, and when that sweep is not sweep number
\* maxIter, it is the last of maxPasses sweeps on end that changed no alpha.
C23_RunStopsAtCapOrAfterQuietSweeps ==
    [][/\ SvTraining => svRun.iter < SvMaxIter
       /\ SvTraining /\ svPc' = "idle" =>
             /\ svRun.i > svRun.N
             /\ svRun.iter + 1 < SvMaxIter => StillSweeps >= SvMaxPasses]_vars

(***************************************************************************)
(*            REGULARIZED POLYNOMIAL REGRESSION (src/PCA/script.js)        *)
(*                                                                         *)
(* Numbers are the fixed-point numbers of the SVM section.                 *)
(***************************************************************************)
RgMaxPoints == 2       \* the points slider offers 0..RgMaxPoints (numPoints is 15)
RgMaxDegree == 2       \* the degree slider offers 1..RgMaxDegree (degree is 10)
RgStepsPerFrame == 2   \* stepsPerFrame (10 in the code)
RgMaxEpoch == 4        \* frames are followed while state.epoch stays within this

RgNoFrame == 0
RgFrameIds == 1..2
RgRegTypes == {"none", "l1", "l2"}
\* a place of the curve with noise: x in [0.05, 0.95), y = trueFunc(x) + noise
RgPlaces == {[x |-> FxOne \div 2, y |-> -FxOne],
             [x |-> FxOne \div 4, y |-> 5 * (FxOne \div 8)]}
\* (Math.random() - 0.5) * 0.1
RgInitialWeights == {-3 * (FxOne \div 100), 3 * (FxOne \div 100)}
RgLearningRates == {FxOne \div 100, FxOne \div 2}
\* val / 200
RgLambdas == {0, FxOne \div 2}

RgState0 ==
    [points |-> <<>>, degree |-> RgMaxDegree, weights |-> <<>>,
     isTraining |-> FALSE, learningRate |-> FxOne \div 100, lambda |-> 0,
     regType |-> "none", epoch |-> 0, animationId |-> RgNoFrame,
     numPoints |-> RgMaxPoints, frames |-> {}]

RgNoStep == [op |-> "none"]

\* Math.sign
RgSign(a) == IF a > 0 THEN 1 ELSE IF a < 0 THEN -1 ELSE 0

\* Math.pow(x, i)
RECURSIVE FxPow(_, _)
FxPow(x, i) == IF i = 0 THEN FxOne ELSE FxMul(x, FxPow(x, i - 1))

\* the loop of predict(x) from index i on
RECURSIVE RgPredictSum(_, _, _)
RgPredictSum(w, x, i) ==
    IF i > Len(w) THEN 0
    ELSE FxMul(w[i], FxPow(x, i - 1)) + RgPredictSum(w, x, i + 1)

RgPredict(s, x) == RgPredictSum(s.weights, x, 1)

\* gdStep: gradients[i] after the loop over the points from point n on
RECURSIVE RgGradientSum(_, _, _)
RgGradientSum(s, i, n) ==
    IF n > Len(s.points) THEN 0
    ELSE LET p == s.points[n]
             error == RgPredict(s, p.x) - p.y
         IN  FxMul(FxMul(FxRatio(2, Len(s.points)), error), FxPow(p.x, i - 1))
             + RgGradientSum(s, i, n + 1)

\* the second loop without the exemption of the bias
RgUpdatedWeightBiasPenalized(s, i) ==
    LET w == s.weights[i]
        g == RgGradientSum(s, i, 1)
        newW == w - FxMul(s.learningRate, g)
    IN  IF s.regType = "l2"
        THEN w - FxMul(s.learningRate, g + FxMul(2 * s.lambda, w))
        ELSE IF s.regType = "l1"
        THEN RgSign(newW) * FxMax(0, Abs(newW) - FxMul(s.learningRate, s.lambda))
        ELSE newW

\* the second loop with the subgradient update in place of soft thresholding
RgUpdatedWeightSubgradient(s, i) ==
    LET w == s.weights[i]
        g == RgGradientSum(s, i, 1)
        newW == w - FxMul(s.learningRate, g)
    IN  IF i = 1 THEN newW
        ELSE IF s.regType = "l2"
        THEN w - FxMul(s.learningRate, g + FxMul(2 * s.lambda, w))
        ELSE IF s.regType = "l1"
        THEN w - FxMul(s.learningRate, g + s.lambda * RgSign(w))
        ELSE newW

\* gdStep: the weight the second loop leaves at index i (from 1, the bias)
RgUpdatedWeight(s, i) ==
    LET w == s.weights[i]
        g == RgGradientSum(s, i, 1)
        newW == w - FxMul(s.learningRate, g)
    IN  IF i = 1 THEN newW
        ELSE IF s.regType = "l2"
        THEN w - FxMul(s.learningRate, g + FxMul(2 * s.lambda, w))
        ELSE IF s.regType = "l1"
        THEN RgSign(newW)
             * FxMax(0, Abs(newW) - FxMul(s.learningRate, s.lambda))
        ELSE newW

gdStep(s) ==
    [s EXCEPT !.weights = [i \in DOMAIN s.weights |-> RgUpdatedWeight(s, i)]]

RgStopTraining(s) ==
    [s EXCEPT !.isTraining = FALSE,
              !.frames = IF s.animationId # RgNoFrame
                         THEN s.frames \ {s.animationId} ELSE s.frames]

\* resetModel(): ws are the weights Math.random gives
RgResetModel(s, ws) == [s EXCEPT !.epoch = 0, !.weights = ws]

RgWeightChoices(s) == [1..(s.degree + 1) -> RgInitialWeights]

\* resetData(): ps are the points the loop pushes
RgResetData(s, ps, ws) ==
    RgResetModel([RgStopTraining(s) EXCEPT !.points = ps], ws)

RgPointChoices(s) == [1..s.numPoints -> RgPlaces]

RgFreshFrame(s) == CHOOSE f \in RgFrameIds : f \notin s.frames

RgDegreeSliderInput ==
    /\ rgPc = "idle"
    /\ \E d \in (1..RgMaxDegree) \ {rg.degree} :
         \E ws \in RgWeightChoices([rg EXCEPT !.degree = d]) :
            rg' = RgResetModel([rg EXCEPT !.degree = d], ws)
    /\ rgLast' = [op |-> "degreeSlider", epoch |-> rg.epoch,
                  wasTraining |-> rg.isTraining]
    /\ UNCHANGED <<rgPc, rgRun, rgOthers>>

PointsSliderInput ==
    /\ rgPc = "idle"
    /\ \E n \in (0..RgMaxPoints) \ {rg.numPoints} :
         LET t == [rg EXCEPT !.numPoints = n]
         IN  \E ps \in RgPointChoices(t), ws \in RgWeightChoices(t) :
                rg' = RgResetData(t, ps, ws)
    /\ rgLast' = RgNoStep
    /\ UNCHANGED <<rgPc, rgRun, rgOthers>>

LambdaSliderInput ==
    /\ rgPc = "idle"
    /\ \E l \in RgLambdas \ {rg.lambda} : rg' = [rg EXCEPT !.lambda = l]
    /\ rgLast' = RgNoStep
    /\ UNCHANGED <<rgPc, rgRun, rgOthers>>

RgLrSliderInput ==
    /\ rgPc = "idle"
    /\ \E v \in RgLearningRates \ {rg.learningRate} :
         rg' = [rg EXCEPT !.learningRate = v]
    /\ rgLast' = RgNoStep
    /\ UNCHANGED <<rgPc, rgRun, rgOthers>>

RegTypeChange ==
    /\ rgPc = "idle"
    /\ \E t \in RgRegTypes \ {rg.regType} : rg' = [rg EXCEPT !.regType = t]
    /\ rgLast' = RgNoStep
    /\ UNCHANGED <<rgPc, rgRun, rgOthers>>

ResetDataBtnClick ==
    /\ rgPc = "idle"
    /\ \E ps \in RgPointChoices(rg), ws \in RgWeightChoices(rg) :
         rg' = RgResetData(rg, ps, ws)
    /\ rgLast' = RgNoStep
    /\ UNCHANGED <<rgPc, rgRun, rgOthers>>

ResetModelBtnClick ==
    /\ rgPc = "idle"
    /\ \E ws \in RgWeightChoices(rg) : rg' = RgResetModel(rg, ws)
    /\ rgLast' = RgNoStep
    /\ UNCHANGED <<rgPc, rgRun, rgOthers>>

\* trainBtn click: stopTraining(), or startTraining() up to the loop of
\* trainLoop
RgTrainBtnClick ==
    /\ rgPc = "idle"
    /\ IF rg.isTraining
       THEN /\ rg' = RgStopTraining(rg)
            /\ UNCHANGED <<rgPc, rgRun>>
       ELSE /\ rg.epoch + RgStepsPerFrame <= RgMaxEpoch
            /\ rg' = [rg EXCEPT !.isTraining = TRUE]
            /\ rgPc' = "trainLoop"
            /\ rgRun' = 0
    /\ rgLast' = RgNoStep
    /\ UNCHANGED rgOthers

\* the animation frame asked for by trainLoop: trainLoop() up to its loop
RgFrameFires ==
    /\ rgPc = "idle"
    /\ rg.epoch + RgStepsPerFrame <= RgMaxEpoch
    /\ \E f \in rg.frames :
         /\ rg' = [rg EXCEPT !.frames = rg.frames \ {f}]
         /\ IF rg.isTraining
            THEN rgPc' = "trainLoop" /\ rgRun' = 0
            ELSE UNCHANGED <<rgPc, rgRun>>
    /\ rgLast' = RgNoStep
    /\ UNCHANGED rgOthers

\* one round of the loop of trainLoop: gdStep(); state.epoch++
RgTrainStep ==
    /\ rgPc = "trainLoop"
    /\ rgRun < RgStepsPerFrame
    /\ rg' = [gdStep(rg) EXCEPT !.epoch = rg.epoch + 1]
    /\ rgRun' = rgRun + 1
    /\ rgLast' = [op |-> "gdStep", before |-> rg]
    /\ UNCHANGED <<rgPc, rgOthers>>

\* trainLoop past its loop: the next frame is asked for
RgTrainLoopEnd ==
    /\ rgPc = "trainLoop"
    /\ rgRun >= RgStepsPerFrame
    /\ rg' = [rg EXCEPT !.animationId = RgFreshFrame(rg),
                        !.frames = rg.frames \cup {RgFreshFrame(rg)}]
    /\ rgPc' = "idle"
    /\ rgRun' = 0
    /\ rgLast' = RgNoStep
    /\ UNCHANGED rgOthers

RgNext ==
    \/ RgDegreeSliderInput
    \/ PointsSliderInput
    \/ LambdaSliderInput
    \/ RgLrSliderInput
    \/ RegTypeChange
    \/ ResetDataBtnClick
    \/ ResetModelBtnClick
    \/ RgTrainBtnClick
    \/ RgFrameFires
    \/ RgTrainStep
    \/ RgTrainLoopEnd

(***************************************************************************)
(*                 LINEAR AND POLYNOMIAL REGRESSION                        *)
(*                                                                         *)
(* Numbers are the decimal fixed-point numbers of the SVM section.  The    *)
(* pending animation frames are kept in state.frames, next to the handle   *)
(* state.animationId that stopTraining cancels.  state.loss, which only    *)
(* the status panel reads, and the mouse position are left out.            *)
(***************************************************************************)
LinNumPoints == 2       \* numPoints of generateRandomData, scaled down
LinMaxPoints == 2       \* canvas clicks are taken up to this many points
LinMaxDegree == 2       \* the degree select offers 1..LinMaxDegree
LinStepsPerFrame == 2   \* trainStep calls of one trainingLoop, scaled down
LinMaxStep == 4         \* frames are served while state.step stays within

LinNoFrame == 0
LinFrameIds == 1..2
LinModes == {"training", "prediction"}
LinPlaces == {[x |-> FxOne \div 2, y |-> FxOne \div 4],
              [x |-> FxOne \div 4, y |-> FxOne]}
LinInitialWeights == {-(FxOne \div 2), FxOne \div 2}
LinLearningRates == {FxOne \div 20, FxOne \div 2}

\* the state object as declared
LinState0 ==
    [points |-> <<>>, degree |-> 1, weights |-> <<0, 0>>,
     learningRate |-> FxOne \div 20, isTraining |-> FALSE, step |-> 0,
     animationId |-> LinNoFrame, mode |-> "training",
     canvas |-> "null", frames |-> {}]

LinNoEvent == [op |-> "none"]

\* a / n for a whole number n > 0
LinOver(a, n) == FxSign(a) * (Abs(a) \div n)

LinPredict(s, x) == RgPredictSum(s.weights, x, 1)

\* updateWeightsArray that keeps the weights it finds and adds or drops the
\* last ones
updateWeightsArrayInPlace(s, ws) ==
    [s EXCEPT !.weights =
        [i \in 1..(s.degree + 1) |->
            IF i <= Len(s.weights) THEN s.weights[i] ELSE ws[i]]]

\* updateWeightsArray(): ws are the weights Math.random gives
updateWeightsArray(s, ws) == [s EXCEPT !.weights = ws]

LinWeightChoices(s) == [1..(s.degree + 1) -> LinInitialWeights]

\* a draw of weights that the caller overwrites before anything reads it
LinFirstDraw(s) == [i \in 1..(s.degree + 1) |-> FxOne \div 2]

resetTrainingVars(s, ws) == updateWeightsArray([s EXCEPT !.step = 0], ws)

LinStopTraining(s) ==
    [s EXCEPT !.isTraining = FALSE,
              !.animationId = LinNoFrame,
              !.frames = IF s.animationId # LinNoFrame
                         THEN s.frames \ {s.animationId} ELSE s.frames]

resetTraining(s, ws) == resetTrainingVars(LinStopTraining(s), ws)

\* generateRandomData(): ps are the points the loop pushes
LinGenerateRandomData(s, ps, ws) ==
    resetTrainingVars([s EXCEPT !.points = ps], ws)

LinPointChoices == [1..LinNumPoints -> LinPlaces]

\* trainStep: gradients[i] after the forEach from point n on
RECURSIVE LinGradientSum(_, _, _)
LinGradientSum(s, i, n) ==
    IF n > Len(s.points) THEN 0
    ELSE LET p == s.points[n]
             error == p.y - LinPredict(s, p.x)
         IN  FxMul(error, FxPow(p.x, i - 1)) + LinGradientSum(s, i, n + 1)

trainStep(s) ==
    IF Len(s.points) = 0 THEN s
    ELSE [s EXCEPT !.weights =
                      [i \in DOMAIN s.weights |->
                          s.weights[i]
                            + FxMul(s.learningRate,
                                    LinOver(LinGradientSum(s, i, 1),
                                            Len(s.points)))],
                   !.step = s.step + 1]

setMode(s, newMode) == LinStopTraining([s EXCEPT !.mode = newMode])

LinFreshFrame(s) == CHOOSE f \in LinFrameIds : f \notin s.frames

LinLrSliderInput ==
    /\ linPc = "idle"
    /\ \E v \in LinLearningRates \ {lin.learningRate} :
         lin' = [lin EXCEPT !.learningRate = v]
    /\ linLast' = LinNoEvent
    /\ UNCHANGED <<linPc, linRun, linOthers>>

\* degreeSelect change: resetTraining(), then updateWeightsArray() once more
DegreeSelectChange ==
    /\ linPc = "idle"
    /\ \E d \in 1..LinMaxDegree :
         IF d # lin.degree
         THEN LET t == [lin EXCEPT !.degree = d]
              IN  \E ws \in LinWeightChoices(t) :
                     lin' = updateWeightsArray(resetTraining(t, LinFirstDraw(t)), ws)
         ELSE lin' = lin
    /\ linLast' = [op |-> "degreeSelect", degree |-> lin.degree,
                   step |-> lin.step, wasTraining |-> lin.isTraining]
    /\ UNCHANGED <<linPc, linRun, linOthers>>

LinResetBtnClick ==
    /\ linPc = "idle"
    /\ \E ws \in LinWeightChoices(lin) :
         lin' = resetTrainingVars([LinStopTraining(lin) EXCEPT !.points = <<>>], ws)
    /\ linLast' = LinNoEvent
    /\ UNCHANGED <<linPc, linRun, linOthers>>

\* randomBtn click: generateRandomData(), then resetTrainingVars() once more,
\* which draws the weights anew
LinRandomBtnClick ==
    /\ linPc = "idle"
    /\ \E ps \in LinPointChoices, ws \in LinWeightChoices(lin) :
         lin' = resetTrainingVars(LinGenerateRandomData(lin, ps, LinFirstDraw(lin)), ws)
    /\ linLast' = LinNoEvent
    /\ UNCHANGED <<linPc, linRun, linOthers>>

ModeBtnClick ==
    /\ linPc = "idle"
    /\ \E m \in LinModes : lin' = setMode(lin, m)
    /\ linLast' = LinNoEvent
    /\ UNCHANGED <<linPc, linRun, linOthers>>

\* canvas click: nothing outside the training mode, else one more point
LinCanvasClick ==
    /\ linPc = "idle"
    /\ Len(lin.points) < LinMaxPoints
    /\ IF lin.mode # "training" THEN lin' = lin
       ELSE \E p \in LinPlaces :
               lin' = [lin EXCEPT !.points = Append(lin.points, p)]
    /\ linLast' = LinNoEvent
    /\ UNCHANGED <<linPc, linRun, linOthers>>

\* trainBtn click, toggleTraining(): stopTraining(), or startTraining() up to
\* the loop of trainingLoop
toggleTraining ==
    /\ linPc = "idle"
    /\ IF lin.isTraining
       THEN /\ lin' = LinStopTraining(lin)
            /\ UNCHANGED <<linPc, linRun>>
       ELSE IF Len(lin.points) < 2
       THEN UNCHANGED <<lin, linPc, linRun>>
       ELSE /\ lin.step + LinStepsPerFrame <= LinMaxStep
            /\ lin' = [lin EXCEPT !.isTraining = TRUE]
            /\ linPc' = "trainingLoop"
            /\ linRun' = 0
    /\ linLast' = LinNoEvent
    /\ UNCHANGED linOthers

\* the animation frame asked for by trainingLoop: trainingLoop() up to its loop
LinFrameFires ==
    /\ linPc = "idle"
    /\ lin.step + LinStepsPerFrame <= LinMaxStep
    /\ \E f \in lin.frames :
         /\ lin' = [lin EXCEPT !.frames = lin.frames \ {f}]
         /\ IF lin.isTraining
            THEN linPc' = "trainingLoop" /\ linRun' = 0
            ELSE UNCHANGED <<linPc, linRun>>
    /\ linLast' = LinNoEvent
    /\ UNCHANGED linOthers

\* one round of the loop of trainingLoop
LinTrainStep ==
    /\ linPc = "trainingLoop"
    /\ linRun < LinStepsPerFrame
    /\ lin' = trainStep(lin)
    /\ linRun' = linRun + 1
    /\ linLast' = LinNoEvent
    /\ UNCHANGED <<linPc, linOthers>>

\* trainingLoop past its loop: the next frame is asked for
LinTrainingLoopEnd ==
    /\ linPc = "trainingLoop"
    /\ linRun >= LinStepsPerFrame
    /\ lin' = [lin EXCEPT !.animationId = LinFreshFrame(lin),
                          !.frames = lin.frames \cup {LinFreshFrame(lin)}]
    /\ linPc' = "idle"
    /\ linRun' = 0
    /\ linLast' = LinNoEvent
    /\ UNCHANGED linOthers

LinNext ==
    \/ LinLrSliderInput
    \/ DegreeSelectChange
    \/ LinResetBtnClick
    \/ LinRandomBtnClick
    \/ ModeBtnClick
    \/ LinCanvasClick
    \/ toggleTraining
    \/ LinFrameFires
    \/ LinTrainStep
    \/ LinTrainingLoopEnd

(***************************************************************************)
(* Regression: claims                                                      *)
(***************************************************************************)
\* the trainBtn click of the logistic page found fewer than two points
LrTrainOnFewPoints ==
    lrCall.op = "trainBtn" /\ Len(lrCall.before.trainingData) < 2

\* gdStep has just run on fewer than two points
RgStepOnFewPoints ==
    rgLast.op = "gdStep" /\ Len(rgLast.before.points) < 2

\* C12: a training operation called on fewer than two points runs no
\* training step and leaves the weights, the loss history and the step
\* counters as they were: the train click of the logistic page starts no
\* trainModel, and a gdStep of the regularized regression changes neither the
\* weights nor, with its caller, state.epoch.
C12_TrainingOnFewPointsIsRejected ==
    /\ LrTrainOnFewPoints =>
          /\ lr = lrCall.before
          /\ lrPc = "idle"
    /\ RgStepOnFewPoints =>
          /\ rg.weights = rgLast.before.weights
          /\ rg.epoch = rgLast.before.epoch

\* the last step was a gdStep in l1 mode
RgL1Step == rgLast.op = "gdStep" /\ rgLast.before.regType = "l1"

\* w' of weight i in the last step: the step along the gradient of the mean
\* squared error alone
RgPlainStep(i) ==
    rgLast.before.weights[i]
        - FxMul(rgLast.before.learningRate, RgGradientSum(rgLast.before, i, 1))

\* lr * lambda of the last step
RgThreshold == FxMul(rgLast.before.learningRate, rgLast.before.lambda)

\* C20: after a gdStep in l1 mode the bias weight is w0 - lr*g0, and every
\* other weight is 0 when |w'| <= lr*lambda and otherwise has the sign of w'
\* and the magnitude |w'| - lr*lambda, w' = w - lr*g being the plain step.
C20_L1StepIsSoftThreshold ==
    RgL1Step =>
        /\ Len(rg.weights) = Len(rgLast.before.weights)
        /\ \A i \in DOMAIN rg.weights :
             IF i = 1
             THEN rg.weights[i] = RgPlainStep(i)
             ELSE IF Abs(RgPlainStep(i)) <= RgThreshold
             THEN rg.weights[i] = 0
             ELSE /\ (rg.weights[i] > 0) = (RgPlainStep(i) > 0)
                  /\ Abs(rg.weights[i]) = Abs(RgPlainStep(i)) - RgThreshold

\* an l1 step with lambda > 0 that set one weight with w' # 0 to zero, shrank
\* another, and left the bias at its plain step
C20_Witness ==
    /\ RgL1Step
    /\ RgThreshold > 0
    /\ \E i \in DOMAIN rg.weights :
         i > 1 /\ RgPlainStep(i) # 0 /\ rg.weights[i] = 0
    /\ \E i \in DOMAIN rg.weights :
         i > 1 /\ rg.weights[i] # 0 /\ rg.weights[i] # RgPlainStep(i)
    /\ Abs(RgPlainStep(1)) > 0
    /\ rg.weights[1] = RgPlainStep(1)

\* the last step was a gdStep in l2 mode
RgL2Step == rgLast.op = "gdStep" /\ rgLast.before.regType = "l2"

\* lr * (2 * lambda * w) of weight i in the last step, the penalty alone
RgDecay(i) ==
    FxMul(rgLast.before.learningRate,
          FxMul(2 * rgLast.before.lambda, rgLast.before.weights[i]))

\* C21: after a gdStep in l2 mode the bias weight is w0 - lr*g0, and every
\* other weight is w - lr*(g + 2*lambda*w), w the weight before the step and
\* g its gradient of the mean squared error at the weights before the step.
C21_L2StepIsWeightDecay ==
    RgL2Step =>
        /\ Len(rg.weights) = Len(rgLast.before.weights)
        /\ \A i \in DOMAIN rg.weights :
             IF i = 1
             THEN rg.weights[i] = RgPlainStep(i)
             ELSE rg.weights[i] =
                    rgLast.before.weights[i]
                      - FxMul(rgLast.before.learningRate,
                              RgGradientSum(rgLast.before, i, 1)
                                + FxMul(2 * rgLast.before.lambda,
                                        rgLast.before.weights[i]))

\* an l2 step with lambda > 0 on at least two points, where the penalty moved
\* a weight away from its plain step and would have moved the bias as well
C21_Witness ==
    /\ RgL2Step
    /\ rgLast.before.lambda > 0
    /\ Len(rgLast.before.points) >= 2
    /\ \E i \in DOMAIN rg.weights : i > 1 /\ rg.weights[i] # RgPlainStep(i)
    /\ RgDecay(1) # 0
    /\ rg.weights[1] = RgPlainStep(1)

\* the last event changed the degree of the regularized regression
RgDegreeChanged == rgLast.op = "degreeSlider"

\* the last event changed the degree of the linear and polynomial regression
LinDegreeChanged == linLast.op = "degreeSelect" /\ linLast.degree # lin.degree

\* C22: on the loaded regression page weights.length = degree + 1 in every
\* state, training or not; after a change of the degree every weight is a
\* freshly drawn one and the counter (state.epoch, state.step) is 0.
C22_WeightsLengthIsDegreePlusOne ==
    /\ rg # RgState0 => Len(rg.weights) = rg.degree + 1
    /\ lin # LinState0 => Len(lin.weights) = lin.degree + 1
    /\ RgDegreeChanged =>
          /\ rg.epoch = 0
          /\ \A i \in DOMAIN rg.weights : rg.weights[i] \in RgInitialWeights
    /\ LinDegreeChanged =>
          /\ lin.step = 0
          /\ \A i \in DOMAIN lin.weights : lin.weights[i] \in LinInitialWeights

\* the degree of the linear and polynomial regression was raised while
\* training was under way, some steps already taken
C22_Witness ==
    /\ LinDegreeChanged
    /\ linLast.wasTraining
    /\ linLast.step > 0
    /\ lin.degree > linLast.degree
    /\ Len(lin.weights) = lin.degree + 1

\* the tree deep has every split of the tree shallow, and where shallow has a
\* leaf, deep has a node of the same samples and counts
RECURSIVE TreeExtends(_, _)
TreeExtends(deep, shallow) ==
    /\ deep.samples = shallow.samples
    /\ deep.classCounts = shallow.classCounts
    /\ deep.predictedClass = shallow.predictedClass
    /\ ~shallow.isLeaf =>
          /\ ~deep.isLeaf
          /\ deep.splitFeature = shallow.splitFeature
          /\ deep.splitValue = shallow.splitValue
          /\ TreeExtends(deep.left, shallow.left)
          /\ TreeExtends(deep.right, shallow.right)

\* C30: on the same data and criterion the tree built with maxDepth d + 1
\* keeps the splits of the tree built with maxDepth d and only subdivides
\* its leaves; it classifies at least as many training points correctly,
\* and calculateAccuracy reports at least as much.
C30_AccuracyGrowsWithDepth ==
    dtCall.op = "accuracy" =>
        /\ TreeExtends(dtCall.deeper, dtCall.shallow)
        /\ dtCall.correct[2] >= dtCall.correct[1]
        /\ dtCall.accuracy[2] >= dtCall.accuracy[1]

\* the deeper tree has split a leaf of the shallower one and classifies more
\* training points correctly
C30_Witness ==
    /\ dtCall.op = "accuracy"
    /\ dtCall.maxDepth = 2
    /\ dtCall.deeper # dtCall.shallow
    /\ dtCall.correct[2] > dtCall.correct[1]
    /\ dtCall.accuracy[2] > dtCall.accuracy[1]

\* all points of the group are of one class
GroupPure(group) == CountA(group) \in {0, Len(group)}

\* the group holds points, as many of class A as of class B
GroupBalanced(group) == Len(group) > 0 /\ 2 * CountA(group) = Len(group)

PcaPointCount == 2      \* CONFIG.POINT_COUNT, scaled down
PcaMaxCoord == 4        \* raw coordinates 0..PcaMaxCoord

PcaPlaces == [x : 0..PcaMaxCoord, y : 0..PcaMaxCoord]
PcaCorrelations == {80, 0}      \* the correlation slider, in hundredths
PcaNoises == {20, 0}            \* the noise slider

\* the state object as declared
PcaState0 ==
    [correlation |-> 80, noise |-> 20, points |-> <<>>,
     pc1Vector |-> [x |-> RInt(1), y |-> RInt(0)],
     pc2Vector |-> [x |-> RInt(0), y |-> RInt(1)],
     eigenvalues |-> <<RInt(0), RInt(0)>>, showPC |-> FALSE]

\* the whole number k with k*k <= n < (k+1)*(k+1)
ISqrt(n) == CHOOSE k \in 0..n : k * k <= n /\ n < (k + 1) * (k + 1)

\* q is the square of a rational
RIsSquare(q) ==
    /\ q.n >= 0
    /\ ISqrt(q.n) * ISqrt(q.n) = q.n
    /\ ISqrt(q.d) * ISqrt(q.d) = q.d

\* Math.sqrt(q) for the square q of a rational
RSqrt(q) == Rat(ISqrt(q.n), ISqrt(q.d))

\* DataGenerator.generate: raw are the points drawn, before centering
PcaGenerate(s, raw) ==
    LET count == Len(raw)
        meanX == RDiv(RInt(SumSeq([i \in DOMAIN raw |-> raw[i].x])), RInt(count))
        meanY == RDiv(RInt(SumSeq([i \in DOMAIN raw |-> raw[i].y])), RInt(count))
    IN  [s EXCEPT !.points = [i \in DOMAIN raw |->
                      [x |-> RSub(RInt(raw[i].x), meanX),
                       y |-> RSub(RInt(raw[i].y), meanY)]]]

\* covXX, covXY, covYY of computePCA
PcaCov(s) ==
    LET n == Len(s.points)
        Over(f) == RDiv(RSum([i \in DOMAIN s.points |-> f[i]]), RInt(n - 1))
    IN  [a |-> Over([i \in DOMAIN s.points |-> RMul(s.points[i].x, s.points[i].x)]),
         b |-> Over([i \in DOMAIN s.points |-> RMul(s.points[i].x, s.points[i].y)]),
         d |-> Over([i \in DOMAIN s.points |-> RMul(s.points[i].y, s.points[i].y)])]

\* trace * trace - 4 * det
PcaDiscriminant(c) ==
    LET trace == RAdd(c.a, c.d)
        det == RSub(RMul(c.a, c.d), RMul(c.b, c.b))
    IN  RSub(RMul(trace, trace), RMul(RInt(4), det))

PcaAxisAligned(c) == RLess(RAbs(c.b), Rat(1, 10^6))

\* v1y = (L1 - a) / b of the general branch
PcaSlope(c) ==
    LET L1 == RDiv(RAdd(RAdd(c.a, c.d), RSqrt(PcaDiscriminant(c))), RInt(2))
    IN  RDiv(RSub(L1, c.a), c.b)

computePCA(s) ==
    LET c == PcaCov(s)
        trace == RAdd(c.a, c.d)
        term == RSqrt(PcaDiscriminant(c))
        L1 == RDiv(RAdd(trace, term), RInt(2))
        L2 == RDiv(RSub(trace, term), RInt(2))
        t == [s EXCEPT !.eigenvalues = <<L1, L2>>]
    IN  IF PcaAxisAligned(c)
        THEN [t EXCEPT
                !.pc1Vector = IF RLess(c.d, c.a) THEN [x |-> RInt(1), y |-> RInt(0)]
                              ELSE [x |-> RInt(0), y |-> RInt(1)],
                !.pc2Vector = IF RLess(c.d, c.a) THEN [x |-> RInt(0), y |-> RInt(1)]
                              ELSE [x |-> RInt(1), y |-> RInt(0)]]
        ELSE LET v1y == PcaSlope(c)
                 len1 == RSqrt(RAdd(RInt(1), RMul(v1y, v1y)))
                 pc1 == [x |-> RDiv(RInt(1), len1), y |-> RDiv(v1y, len1)]
             IN  [t EXCEPT !.pc1Vector = pc1,
                           !.pc2Vector = [x |-> RNeg(pc1.y), y |-> pc1.x]]

\* the square roots of computePCA on these points are roots of squares
PcaExact(s) ==
    LET c == PcaCov(s)
    IN  /\ RIsSquare(PcaDiscriminant(c))
        /\ PcaAxisAligned(c)
             \/ RIsSquare(RAdd(RInt(1), RMul(PcaSlope(c), PcaSlope(c))))

\* the draws of DataGenerator.generate that are followed
PcaRawChoices ==
    {raw \in [1..PcaPointCount -> PcaPlaces] : PcaExact(PcaGenerate(PcaState0, raw))}

regenerateData(s, raw) == computePCA(PcaGenerate(s, raw))

\* input on the correlation or the noise slider: updateGenParams()
GenParamsInput ==
    /\ \E c \in PcaCorrelations, n \in PcaNoises :
          /\ <<c, n>> # <<pca.correlation, pca.noise>>
          /\ pca' = [pca EXCEPT !.correlation = c, !.noise = n]
    /\ UNCHANGED pcaOthers

\* btnRegenerate click: the sliders stand where updateGenParams last read them
RegenerateClick ==
    /\ \E raw \in PcaRawChoices : pca' = regenerateData(pca, raw)
    /\ UNCHANGED pcaOthers

ShowPCChange ==
    /\ pca' = [pca EXCEPT !.showPC = ~pca.showPC]
    /\ UNCHANGED pcaOthers

PcaNext ==
    \/ GenParamsInput
    \/ RegenerateClick
    \/ ShowPCChange

(***************************************************************************)
(* PCA: claims                                                             *)
(***************************************************************************)
PcaDotProduct(u, v) == RAdd(RMul(u.x, v.x), RMul(u.y, v.y))

\* C25: after computePCA pc2 is (-pc1.y, pc1.x), and pc1 and pc2 are unit
\* vectors at right angles, in the axis-aligned and in the general branch.
C25_Pc2IsPc1QuarterTurned ==
    /\ pca.pc2Vector.x = RNeg(pca.pc1Vector.y)
    /\ pca.pc2Vector.y = pca.pc1Vector.x
    /\ PcaDotProduct(pca.pc1Vector, pca.pc2Vector) = RInt(0)
    /\ PcaDotProduct(pca.pc1Vector, pca.pc1Vector) = RInt(1)
    /\ PcaDotProduct(pca.pc2Vector, pca.pc2Vector) = RInt(1)

(***************************************************************************)
(*                  GRADIENT DESCENT IN ONE DIMENSION                      *)
(*                       (src/GradientDescent/script.js)                   *)
(*                                                                         *)
(* The module-level variables of the script are the fields of gd; x and    *)
(* the learning rate are exact rationals.  frames holds the pending        *)
(* requestAnimationFrame callbacks and timeouts counts the pending          *)
(* setTimeout(gradientDescentStep, 300) callbacks, which are all alike.    *)
(* Drawing and the message text are left out.                              *)
(***************************************************************************)
GdMaxSteps == 2         \* maxSteps, scaled down
GdMaxPending == 2       \* start is followed while fewer callbacks are pending

GdNoFrame == 0          \* animationId = null
GdFrameIds == 1..(GdMaxPending + 1)
GdFuncKeys == {"deg2", "deg4"}
GdStarts == {RInt(-2), RInt(0), RInt(2)}        \* values of Math.random() * 8 - 4
GdLearningRates == {Rat(1, 10), Rat(1, 2)}      \* the lr slider

\* the variables as declared
GdState0 ==
    [lr |-> Rat(1, 10), currentX |-> RInt(0), path |-> <<>>, isRunning |-> FALSE,
     animationId |-> GdNoFrame, step |-> 0, currentFuncKey |-> "deg2",
     frames |-> {}, timeouts |-> 0]

\* functions[key].grad(x)
GdGrad(key, x) ==
    IF key = "deg2" THEN x
    ELSE RAdd(RSub(RMul(RInt(4), RPow(x, 3)), RMul(RInt(8), x)), Rat(1, 2))

GdPending(s) == Cardinality(s.frames) + s.timeouts

\* an id no pending frame has and animationId does not hold
GdFreshFrame(s) == CHOOSE f \in GdFrameIds : f \notin s.frames \cup {s.animationId}

\* cancelAnimationFrame(animationId) reaches a frame that has not fired yet
stopSimulation(s) ==
    [s EXCEPT !.isRunning = FALSE, !.frames = s.frames \ {s.animationId}]

gradientDescentStep(s) ==
    IF ~s.isRunning THEN s
    ELSE IF s.step >= GdMaxSteps THEN stopSimulation(s)
    ELSE IF RLess(RInt(100), RAbs(s.currentX)) THEN stopSimulation(s)
    ELSE LET grad == GdGrad(s.currentFuncKey, s.currentX)
             x == RSub(s.currentX, RMul(s.lr, grad))
             t == [s EXCEPT !.currentX = x, !.path = Append(s.path, x),
                            !.step = s.step + 1]
         IN  IF RLess(RAbs(grad), Rat(1, 1000))
             THEN stopSimulation(t)
             ELSE [t EXCEPT !.animationId = GdFreshFrame(t),
                            !.frames = t.frames \cup {GdFreshFrame(t)}]

startSimulation(s) ==
    IF s.isRunning THEN s
    ELSE gradientDescentStep([s EXCEPT !.isRunning = TRUE])

resetSimulation(s) ==
    LET t == stopSimulation(s)
        x == IF Len(t.path) > 0 THEN t.path[1] ELSE t.currentX
    IN  [t EXCEPT !.currentX = x, !.path = <<x>>, !.step = 0]

randomizeStart(s, x) ==
    [stopSimulation(s) EXCEPT !.currentX = x, !.path = <<x>>, !.step = 0]

GdLrSliderInput ==
    /\ \E v \in GdLearningRates \ {gd.lr} : gd' = [gd EXCEPT !.lr = v]
    /\ UNCHANGED gdOthers

FuncSelectChange ==
    /\ \E key \in GdFuncKeys \ {gd.currentFuncKey}, x \in GdStarts :
          gd' = randomizeStart(stopSimulation([gd EXCEPT !.currentFuncKey = key]), x)
    /\ UNCHANGED gdOthers

\* the button is disabled while isRunning
StartBtnClick ==
    /\ ~gd.isRunning
    /\ GdPending(gd) < GdMaxPending
    /\ gd' = startSimulation(gd)
    /\ UNCHANGED gdOthers

GdResetBtnClick ==
    /\ gd' = resetSimulation(gd)
    /\ UNCHANGED gdOthers

GdRandomBtnClick ==
    /\ \E x \in GdStarts : gd' = randomizeStart(gd, x)
    /\ UNCHANGED gdOthers

\* mousedown on the canvas: a new starting point, unless isRunning
GdCanvasMouseDown ==
    /\ ~gd.isRunning
    /\ \E x \in GdStarts : gd' = [gd EXCEPT !.currentX = x, !.path = <<x>>, !.step = 0]
    /\ UNCHANGED gdOthers

\* the requestAnimationFrame callback: setTimeout(gradientDescentStep, 300)
GdFrameFires ==
    /\ \E f \in gd.frames :
          gd' = [gd EXCEPT !.frames = gd.frames \ {f}, !.timeouts = gd.timeouts + 1]
    /\ UNCHANGED gdOthers

\* a setTimeout callback: gradientDescentStep()
GdTimeoutFires ==
    /\ gd.timeouts > 0
    /\ gd' = gradientDescentStep([gd EXCEPT !.timeouts = gd.timeouts - 1])
    /\ UNCHANGED gdOthers

GdNext ==
    \/ GdLrSliderInput
    \/ FuncSelectChange
    \/ StartBtnClick
    \/ GdResetBtnClick
    \/ GdRandomBtnClick
    \/ GdCanvasMouseDown
    \/ GdFrameFires
    \/ GdTimeoutFires

(***************************************************************************)
(* Gradient descent: claims                                                *)
(***************************************************************************)
\* C28: at most one step chain is live: while isRunning there is never more
\* than one pending callback that leads to a step, so after a stop and a new
\* start x advances once per tick and not twice.
C28_AtMostOneLiveChain == gd.isRunning => GdPending(gd) <= 1

(***************************************************************************)
(*                     Q-LEARNING GRID WORLD                               *)
(*                        (src/unnamed/part_003)                           *)
(*                                                                         *)
(* Q-values and rewards are decimal fixed-point numbers in units of        *)
(* 1/QlUnit; epsilon, alpha and gamma are the slider values, in            *)
(* hundredths.  timers holds the live setInterval ids.  The chart, the     *)
(* hover cell and the drawing are left out.                                *)
(***************************************************************************)
QlMaxSteps == 6         \* steps followed in the first episode
QlLaterSteps == 2       \* steps followed in each later episode
QlMaxEpisodes == 2      \* episodes followed

GRID_SIZE == 4
QlUnit == 10^6
QlNoTimer == 0          \* state.timer = null
QlTimerIds == 1..2
QlCells == (0..(GRID_SIZE - 1)) \X (0..(GRID_SIZE - 1))
QlActions == 0..3       \* CONFIG.ACTIONS: UP, RIGHT, DOWN, LEFT
QlSpeedValues == {41, 26}       \* the speed slider: intervals of 100 and 250 ms
QlEpsilonValues == {10, 0}      \* the epsilon slider
QlAlphaValues == {10}           \* the alpha slider, left where it stands
QlGammaValues == {90}           \* the gamma slider, left where it stands

REWARDS == [GOAL |-> 100, TRAP |-> -100, STEP |-> -1, WALL |-> -5]

\* env.map[y][x], rows from the top
QlMap ==
    << <<"S", ".", ".", ".">>,
       <<".", "T", ".", "T">>,
       <<".", ".", ".", "T">>,
       <<"T", ".", ".", "G">> >>

MapAt(x, y) == QlMap[y + 1][x + 1]

\* the cell marked S
QlStart == CHOOSE c \in QlCells : MapAt(c[1], c[2]) = "S"

getReward(x, y) ==
    IF MapAt(x, y) = "G" THEN REWARDS.GOAL
    ELSE IF MapAt(x, y) = "T" THEN REWARDS.TRAP
    ELSE REWARDS.STEP

isTerminal(x, y) == MapAt(x, y) \in {"G", "T"}

initQTable == [c \in QlCells |-> <<0, 0, 0, 0>>]

\* the state object once env and agent are constructed
QlState0 ==
    [agentX |-> QlStart[1], agentY |-> QlStart[2], episode |-> 0,
     totalReward |-> 0, steps |-> 0, isRunning |-> FALSE, speed |-> 10,
     timer |-> QlNoTimer, epsilon |-> 10, alpha |-> 10, gamma |-> 90,
     qTable |-> initQTable, highlightState |-> Null, highlightTimer |-> 0,
     historyRewards |-> <<>>, timers |-> {}]

\* whether the last event was a call of step(): ghost record for the step property
QlNoEvent == [op |-> "none"]

\* v * percent / 100, rounded down to the unit
QlTimes(v, percent) == (v \div 100) * percent + ((v % 100) * percent) \div 100

QlMax(a, b) == IF a > b THEN a ELSE b
QlMin(a, b) == IF a < b THEN a ELSE b

getMaxQ(s, x, y) ==
    LET q == s.qTable[<<x, y>>]
    IN  QlMax(QlMax(q[1], q[2]), QlMax(q[3], q[4]))

\* the actions chooseAction can return: any of the four when exploring,
\* else one of those of the greatest Q-value
chooseAction(s, x, y) ==
    {a \in QlActions :
        \/ s.epsilon > 0
        \/ s.qTable[<<x, y>>][a + 1] = getMaxQ(s, x, y)}

learn(s, x, y, action, reward, nextX, nextY) ==
    LET predicted == s.qTable[<<x, y>>][action + 1]
        target == reward * QlUnit + QlTimes(getMaxQ(s, nextX, nextY), s.gamma)
        newQ == predicted + QlTimes(target - predicted, s.alpha)
    IN  [s EXCEPT !.qTable[<<x, y>>][action + 1] = newQ]

resetEpisode(s) ==
    [s EXCEPT !.episode = s.episode + 1, !.totalReward = 0, !.steps = 0,
              !.agentX = QlStart[1], !.agentY = QlStart[2]]

\* step() past the highlight pause, with the action chooseAction returned
QlMove(s, action) ==
    LET nextX == IF action = 1 THEN QlMin(3, s.agentX + 1)
                 ELSE IF action = 3 THEN QlMax(0, s.agentX - 1) ELSE s.agentX
        nextY == IF action = 0 THEN QlMax(0, s.agentY - 1)
                 ELSE IF action = 2 THEN QlMin(3, s.agentY + 1) ELSE s.agentY
        reward == getReward(nextX, nextY)
        t == [s EXCEPT !.totalReward = s.totalReward + reward,
                       !.steps = s.steps + 1]
        u == learn(t, s.agentX, s.agentY, action, reward, nextX, nextY)
        v == [u EXCEPT !.agentX = nextX, !.agentY = nextY]
    IN  IF isTerminal(nextX, nextY)
        THEN [v EXCEPT
                !.historyRewards = Append(v.historyRewards, v.totalReward),
                !.highlightTimer = QlMax(2, 500 \div (v.speed * 10)),
                !.highlightState = [x |-> nextX, y |-> nextY,
                                    type |-> MapAt(nextX, nextY)]]
        ELSE v

\* step() without the return that ends the highlight pause
stepThroughPause(s, action) ==
    IF s.highlightTimer > 0
    THEN LET t == [s EXCEPT !.highlightTimer = s.highlightTimer - 1]
         IN  IF t.highlightTimer = 0
             THEN resetEpisode([t EXCEPT !.highlightState = Null])
             ELSE QlMove(t, action)
    ELSE QlMove(s, action)

step(s, action) ==
    IF s.highlightTimer > 0
    THEN LET t == [s EXCEPT !.highlightTimer = s.highlightTimer - 1]
         IN  IF t.highlightTimer = 0
             THEN resetEpisode([t EXCEPT !.highlightState = Null])
             ELSE t
    ELSE QlMove(s, action)

QlFreshTimer(s) == CHOOSE t \in QlTimerIds : t \notin s.timers \cup {s.timer}

startTrainingLoop(s) ==
    [s EXCEPT !.timer = QlFreshTimer(s), !.timers = s.timers \cup {QlFreshTimer(s)}]

QlClearInterval(s) == [s EXCEPT !.timers = s.timers \ {s.timer}]

QlToggleTraining(s) ==
    IF ~s.isRunning
    THEN startTrainingLoop([s EXCEPT !.isRunning = TRUE])
    ELSE QlClearInterval([s EXCEPT !.isRunning = FALSE])

QlResetAll(s) ==
    [QlClearInterval(s) EXCEPT
        !.isRunning = FALSE, !.qTable = initQTable,
        !.agentX = QlStart[1], !.agentY = QlStart[2],
        !.episode = 0, !.totalReward = 0, !.steps = 0, !.historyRewards = <<>>,
        !.highlightState = Null, !.highlightTimer = 0]

\* the steps that are followed: the counters of the source, capped
QlStepBudget(s) ==
    IF s.episode = 0 THEN QlMaxSteps
    ELSE IF s.episode < QlMaxEpisodes THEN QlLaterSteps ELSE 0

EpsSliderInput ==
    /\ \E v \in QlEpsilonValues \ {ql.epsilon} : ql' = [ql EXCEPT !.epsilon = v]
    /\ qlLast' = QlNoEvent
    /\ UNCHANGED qlOthers

AlphaSliderInput ==
    /\ \E v \in QlAlphaValues : ql' = [ql EXCEPT !.alpha = v]
    /\ qlLast' = QlNoEvent
    /\ UNCHANGED qlOthers

GammaSliderInput ==
    /\ \E v \in QlGammaValues : ql' = [ql EXCEPT !.gamma = v]
    /\ qlLast' = QlNoEvent
    /\ UNCHANGED qlOthers

SpeedSliderInput ==
    /\ \E val \in QlSpeedValues :
          /\ 51 - val # ql.speed
          /\ LET t == [ql EXCEPT !.speed = 51 - val]
             IN  ql' = IF t.isRunning THEN startTrainingLoop(QlClearInterval(t))
                       ELSE t
    /\ qlLast' = QlNoEvent
    /\ UNCHANGED qlOthers

BtnTrainClick ==
    /\ ql' = QlToggleTraining(ql)
    /\ qlLast' = QlNoEvent
    /\ UNCHANGED qlOthers

BtnResetClick ==
    /\ ql' = QlResetAll(ql)
    /\ qlLast' = QlNoEvent
    /\ UNCHANGED qlOthers

\* a setInterval callback: step()
QlIntervalFires ==
    /\ ql.timers # {}
    /\ ql.highlightTimer > 0 \/ ql.steps < QlStepBudget(ql)
    /\ \E a \in chooseAction(ql, ql.agentX, ql.agentY) : ql' = step(ql, a)
    /\ qlLast' = [op |-> "step"]
    /\ UNCHANGED qlOthers

QlNext ==
    \/ EpsSliderInput
    \/ AlphaSliderInput
    \/ GammaSliderInput
    \/ SpeedSliderInput
    \/ BtnTrainClick
    \/ BtnResetClick
    \/ QlIntervalFires

(***************************************************************************)
(* Q-learning: claims                                                      *)
(***************************************************************************)
QlOnTerminal == isTerminal(ql.agentX, ql.agentY)

\* C29: the agent neither selects an action nor updates a Q-value while on a
\* terminal cell: a step() taken there only counts the highlight pause down
\* and, when it ends, puts the agent on the start cell with the episode
\* counter one higher; the Q-values of every terminal cell stay [0, 0, 0, 0].
C29_NoActionOnTerminalCell ==
    /\ [](\A c \in QlCells :
             isTerminal(c[1], c[2]) => ql.qTable[c] = <<0, 0, 0, 0>>)
    /\ [][qlLast'.op = "step" /\ QlOnTerminal =>
             /\ ql.highlightTimer > 0
             /\ ql'.highlightTimer = ql.highlightTimer - 1
             /\ ql'.qTable = ql.qTable
             /\ IF ql'.highlightTimer > 0
                THEN /\ <<ql'.agentX, ql'.agentY>> = <<ql.agentX, ql.agentY>>
                     /\ ql'.episode = ql.episode
                     /\ ql'.steps = ql.steps
                ELSE /\ <<ql'.agentX, ql'.agentY>> = QlStart
                     /\ ql'.episode = ql.episode + 1]_vars

\* the agent has entered the goal, the pause has been counted down by step()
\* and the second episode has begun on the start cell
C29_Witness ==
    /\ qlLast.op = "step"
    /\ ql.episode = 1
    /\ ql.steps = 0
    /\ <<ql.agentX, ql.agentY>> = QlStart
    /\ ql.historyRewards # <<>>
    /\ ql.historyRewards[1] > 0

(***************************************************************************)
(* Specifications: one widget runs, the others stay as declared.           *)
(***************************************************************************)
\* DOMContentLoaded of the k-means page: generateRandomData() up to its loop
KmInit ==
    /\ km = generateRandomDataStart(KmState0)
    /\ kmPc = "DOMContentLoaded"
    /\ kmStep = NoStep
    /\ kmCycle = NoCycle
    /\ lr = LrState0
    /\ lrPc = "idle"
    /\ lrRun = LrNoRun
    /\ lrCall = NoCall
    /\ dt = DtState0
    /\ dtPc = "idle"
    /\ dtCall = NoCall
    /\ svm = SvState0
    /\ svPc = "idle"
    /\ svTimers = <<>>
    /\ svRun = NoRun
    /\ svLast = NoExam
    /\ svBy = NoRun
    /\ rg = RgState0
    /\ rgPc = "idle"
    /\ rgRun = 0
    /\ rgLast = RgNoStep
    /\ lin = LinState0
    /\ linPc = "idle"
    /\ linRun = 0
    /\ linLast = LinNoEvent
    /\ pca = PcaState0
    /\ gd = GdState0
    /\ ql = QlState0
    /\ qlLast = QlNoEvent

SpecKMeans == KmInit /\ [][KmNext]_vars

\* the logistic page after DOMContentLoaded: generateRandomData() has run
LrInit ==
    /\ lr \in {LrGenerateRandomData(LrState0, as, bs) :
                  as \in [1..LrPointsPerClass -> LrClassA],
                  bs \in [1..LrPointsPerClass -> LrClassB]}
    /\ lrPc = "idle"
    /\ lrRun = LrNoRun
    /\ lrCall = NoCall
    /\ km = KmState0
    /\ kmPc = "idle"
    /\ kmStep = NoStep
    /\ kmCycle = NoCycle
    /\ dt = DtState0
    /\ dtPc = "idle"
    /\ dtCall = NoCall
    /\ svm = SvState0
    /\ svPc = "idle"
    /\ svTimers = <<>>
    /\ svRun = NoRun
    /\ svLast = NoExam
    /\ svBy = NoRun
    /\ rg = RgState0
    /\ rgPc = "idle"
    /\ rgRun = 0
    /\ rgLast = RgNoStep
    /\ lin = LinState0
    /\ linPc = "idle"
    /\ linRun = 0
    /\ linLast = LinNoEvent
    /\ pca = PcaState0
    /\ gd = GdState0
    /\ ql = QlState0
    /\ qlLast = QlNoEvent

SpecLogistic == LrInit /\ [][LrNext]_vars

\* DOMContentLoaded of the decision-tree page: generateRandomData() up to its loop
DtInit ==
    /\ dt = dtGenerateStart(DtState0)
    /\ dtPc = "generating"
    /\ dtCall = NoCall
    /\ km = KmState0
    /\ kmPc = "idle"
    /\ kmStep = NoStep
    /\ kmCycle = NoCycle
    /\ lr = LrState0
    /\ lrPc = "idle"
    /\ lrRun = LrNoRun
    /\ lrCall = NoCall
    /\ svm = SvState0
    /\ svPc = "idle"
    /\ svTimers = <<>>
    /\ svRun = NoRun
    /\ svLast = NoExam
    /\ svBy = NoRun
    /\ rg = RgState0
    /\ rgPc = "idle"
    /\ rgRun = 0
    /\ rgLast = RgNoStep
    /\ lin = LinState0
    /\ linPc = "idle"
    /\ linRun = 0
    /\ linLast = LinNoEvent
    /\ pca = PcaState0
    /\ gd = GdState0
    /\ ql = QlState0
    /\ qlLast = QlNoEvent

SpecTree == DtInit /\ [][DtNext]_vars

\* findBestSplit on its own: every data set of DtSplitData under either criterion
DtSplitInit ==
    /\ dtCall \in [op : {"pending"}, criterion : DtCriteria, data : DtSplitData]
    /\ dt = DtState0
    /\ dtPc = "idle"
    /\ km = KmState0
    /\ kmPc = "idle"
    /\ kmStep = NoStep
    /\ kmCycle = NoCycle
    /\ lr = LrState0
    /\ lrPc = "idle"
    /\ lrRun = LrNoRun
    /\ lrCall = NoCall
    /\ svm = SvState0
    /\ svPc = "idle"
    /\ svTimers = <<>>
    /\ svRun = NoRun
    /\ svLast = NoExam
    /\ svBy = NoRun
    /\ rg = RgState0
    /\ rgPc = "idle"
    /\ rgRun = 0
    /\ rgLast = RgNoStep
    /\ lin = LinState0
    /\ linPc = "idle"
    /\ linRun = 0
    /\ linLast = LinNoEvent
    /\ pca = PcaState0
    /\ gd = GdState0
    /\ ql = QlState0
    /\ qlLast = QlNoEvent

SpecSplit == DtSplitInit /\ [][CallFindBestSplit]_vars

\* DOMContentLoaded of the SVM page: generateRandomData('linear') up to its loop
SvInit ==
    /\ svm = SvState0
    /\ svPc = "DOMContentLoaded"
    /\ svTimers = <<>>
    /\ svRun = NoRun
    /\ svLast = NoExam
    /\ svBy = NoRun
    /\ km = KmState0
    /\ kmPc = "idle"
    /\ kmStep = NoStep
    /\ kmCycle = NoCycle
    /\ lr = LrState0
    /\ lrPc = "idle"
    /\ lrRun = LrNoRun
    /\ lrCall = NoCall
    /\ dt = DtState0
    /\ dtPc = "idle"
    /\ dtCall = NoCall
    /\ rg = RgState0
    /\ rgPc = "idle"
    /\ rgRun = 0
    /\ rgLast = RgNoStep
    /\ lin = LinState0
    /\ linPc = "idle"
    /\ linRun = 0
    /\ linLast = LinNoEvent
    /\ pca = PcaState0
    /\ gd = GdState0
    /\ ql = QlState0
    /\ qlLast = QlNoEvent

SpecSVM == SvInit /\ [][SvNext]_vars

\* the regression page after DOMContentLoaded: resetData() has run
RgInit ==
    /\ rg \in {RgResetData(RgState0, ps, ws) :
                  ps \in RgPointChoices(RgState0), ws \in RgWeightChoices(RgState0)}
    /\ rgPc = "idle"
    /\ rgRun = 0
    /\ rgLast = RgNoStep
    /\ km = KmState0
    /\ kmPc = "idle"
    /\ kmStep = NoStep
    /\ kmCycle = NoCycle
    /\ lr = LrState0
    /\ lrPc = "idle"
    /\ lrRun = LrNoRun
    /\ lrCall = NoCall
    /\ dt = DtState0
    /\ dtPc = "idle"
    /\ dtCall = NoCall
    /\ svm = SvState0
    /\ svPc = "idle"
    /\ svTimers = <<>>
    /\ svRun = NoRun
    /\ svLast = NoExam
    /\ svBy = NoRun
    /\ lin = LinState0
    /\ linPc = "idle"
    /\ linRun = 0
    /\ linLast = LinNoEvent
    /\ pca = PcaState0
    /\ gd = GdState0
    /\ ql = QlState0
    /\ qlLast = QlNoEvent

SpecRegularized == RgInit /\ [][RgNext]_vars

\* one of the two regression pages after DOMContentLoaded, the other one not
\* loaded
RegressionInit ==
    /\ \/ /\ rg \in {RgResetData(RgState0, ps, ws) :
                       ps \in RgPointChoices(RgState0),
                       ws \in RgWeightChoices(RgState0)}
          /\ lin = LinState0
       \/ /\ rg = RgState0
          /\ lin \in {LinGenerateRandomData(
                         updateWeightsArray(
                            [LinState0 EXCEPT !.canvas = "regressionCanvas"],
                            LinFirstDraw(LinState0)),
                         ps, ws) :
                       ps \in LinPointChoices,
                       ws \in LinWeightChoices(LinState0)}
    /\ rgPc = "idle"
    /\ rgRun = 0
    /\ rgLast = RgNoStep
    /\ km = KmState0
    /\ kmPc = "idle"
    /\ kmStep = NoStep
    /\ kmCycle = NoCycle
    /\ lr = LrState0
    /\ lrPc = "idle"
    /\ lrRun = LrNoRun
    /\ lrCall = NoCall
    /\ dt = DtState0
    /\ dtPc = "idle"
    /\ dtCall = NoCall
    /\ svm = SvState0
    /\ svPc = "idle"
    /\ svTimers = <<>>
    /\ svRun = NoRun
    /\ svLast = NoExam
    /\ svBy = NoRun
    /\ linPc = "idle"
    /\ linRun = 0
    /\ linLast = LinNoEvent
    /\ pca = PcaState0
    /\ gd = GdState0
    /\ ql = QlState0
    /\ qlLast = QlNoEvent

\* the events of the page that is loaded
RegressionNext ==
    \/ /\ lin = LinState0
       /\ RgNext
    \/ /\ rg = RgState0
       /\ LinNext

SpecRegression == RegressionInit /\ [][RegressionNext]_vars

\* a cell of the grid awaits drawContour
ContourInit ==
    /\ lrCall \in [op : {"pending"}, cell : ContourCells,
                    threshold : ContourThresholds,
                    corners : [TL : ContourValues, TR : ContourValues,
                               BR : ContourValues, BL : ContourValues]]
    /\ dtCall = NoCall
    /\ dt = DtState0
    /\ dtPc = "idle"
    /\ km = KmState0
    /\ kmPc = "idle"
    /\ kmStep = NoStep
    /\ kmCycle = NoCycle
    /\ lr = LrState0
    /\ lrPc = "idle"
    /\ lrRun = LrNoRun
    /\ svm = SvState0
    /\ svPc = "idle"
    /\ svTimers = <<>>
    /\ svRun = NoRun
    /\ svLast = NoExam
    /\ svBy = NoRun
    /\ rg = RgState0
    /\ rgPc = "idle"
    /\ rgRun = 0
    /\ rgLast = RgNoStep
    /\ lin = LinState0
    /\ linPc = "idle"
    /\ linRun = 0
    /\ linLast = LinNoEvent
    /\ pca = PcaState0
    /\ gd = GdState0
    /\ ql = QlState0
    /\ qlLast = QlNoEvent

SpecContour == ContourInit /\ [][CallDrawContourCell]_vars

\* the PCA page after DOMContentLoaded: regenerateData() has run
PcaInit ==
    /\ pca \in {regenerateData(PcaState0, raw) : raw \in PcaRawChoices}
    /\ dtCall = NoCall
    /\ dt = DtState0
    /\ dtPc = "idle"
    /\ km = KmState0
    /\ kmPc = "idle"
    /\ kmStep = NoStep
    /\ kmCycle = NoCycle
    /\ lr = LrState0
    /\ lrPc = "idle"
    /\ lrRun = LrNoRun
    /\ lrCall = NoCall
    /\ svm = SvState0
    /\ svPc = "idle"
    /\ svTimers = <<>>
    /\ svRun = NoRun
    /\ svLast = NoExam
    /\ svBy = NoRun
    /\ rg = RgState0
    /\ rgPc = "idle"
    /\ rgRun = 0
    /\ rgLast = RgNoStep
    /\ lin = LinState0
    /\ linPc = "idle"
    /\ linRun = 0
    /\ linLast = LinNoEvent
    /\ gd = GdState0
    /\ ql = QlState0
    /\ qlLast = QlNoEvent

SpecPCA == PcaInit /\ [][PcaNext]_vars

\* giniImpurity on its own: every group of DtGroups
GiniInit ==
    /\ dtCall \in [op : {"pending"}, group : DtGroups]
    /\ dt = DtState0
    /\ dtPc = "idle"
    /\ km = KmState0
    /\ kmPc = "idle"
    /\ kmStep = NoStep
    /\ kmCycle = NoCycle
    /\ lr = LrState0
    /\ lrPc = "idle"
    /\ lrRun = LrNoRun
    /\ lrCall = NoCall
    /\ svm = SvState0
    /\ svPc = "idle"
    /\ svTimers = <<>>
    /\ svRun = NoRun
    /\ svLast = NoExam
    /\ svBy = NoRun
    /\ rg = RgState0
    /\ rgPc = "idle"
    /\ rgRun = 0
    /\ rgLast = RgNoStep
    /\ lin = LinState0
    /\ linPc = "idle"
    /\ linRun = 0
    /\ linLast = LinNoEvent
    /\ pca = PcaState0
    /\ gd = GdState0
    /\ ql = QlState0
    /\ qlLast = QlNoEvent

SpecGini == GiniInit /\ [][CallGiniImpurity]_vars

\* the gradient-descent page after init(): randomizeStart() has run
GdInit ==
    /\ gd \in {randomizeStart(GdState0, x) : x \in GdStarts}
    /\ dtCall = NoCall
    /\ dt = DtState0
    /\ dtPc = "idle"
    /\ km = KmState0
    /\ kmPc = "idle"
    /\ kmStep = NoStep
    /\ kmCycle = NoCycle
    /\ lr = LrState0
    /\ lrPc = "idle"
    /\ lrRun = LrNoRun
    /\ lrCall = NoCall
    /\ svm = SvState0
    /\ svPc = "idle"
    /\ svTimers = <<>>
    /\ svRun = NoRun
    /\ svLast = NoExam
    /\ svBy = NoRun
    /\ rg = RgState0
    /\ rgPc = "idle"
    /\ rgRun = 0
    /\ rgLast = RgNoStep
    /\ lin = LinState0
    /\ linPc = "idle"
    /\ linRun = 0
    /\ linLast = LinNoEvent
    /\ pca = PcaState0
    /\ ql = QlState0
    /\ qlLast = QlNoEvent

SpecGradient == GdInit /\ [][GdNext]_vars

\* the Q-learning page once the script has run
QlInit ==
    /\ ql = QlState0
    /\ qlLast = QlNoEvent
    /\ dtCall = NoCall
    /\ dt = DtState0
    /\ dtPc = "idle"
    /\ km = KmState0
    /\ kmPc = "idle"
    /\ kmStep = NoStep
    /\ kmCycle = NoCycle
    /\ lr = LrState0
    /\ lrPc = "idle"
    /\ lrRun = LrNoRun
    /\ lrCall = NoCall
    /\ svm = SvState0
    /\ svPc = "idle"
    /\ svTimers = <<>>
    /\ svRun = NoRun
    /\ svLast = NoExam
    /\ svBy = NoRun
    /\ rg = RgState0
    /\ rgPc = "idle"
    /\ rgRun = 0
    /\ rgLast = RgNoStep
    /\ lin = LinState0
    /\ linPc = "idle"
    /\ linRun = 0
    /\ linLast = LinNoEvent
    /\ pca = PcaState0
    /\ gd = GdState0

SpecQLearning == QlInit /\ [][QlNext]_vars

\* buildTree at two depths: every data set of DtAccuracyData, either criterion
DtAccuracyInit ==
    /\ dtCall \in [op : {"pending"}, criterion : DtCriteria, maxDepth : 1..(DtMaxDepth - 1), data : DtAccuracyData]
    /\ dt = DtState0
    /\ dtPc = "idle"
    /\ km = KmState0
    /\ kmPc = "idle"
    /\ kmStep = NoStep
    /\ kmCycle = NoCycle
    /\ lr = LrState0
    /\ lrPc = "idle"
    /\ lrRun = LrNoRun
    /\ lrCall = NoCall
    /\ svm = SvState0
    /\ svPc = "idle"
    /\ svTimers = <<>>
    /\ svRun = NoRun
    /\ svLast = NoExam
    /\ svBy = NoRun
    /\ rg = RgState0
    /\ rgPc = "idle"
    /\ rgRun = 0
    /\ rgLast = RgNoStep
    /\ lin = LinState0
    /\ linPc = "idle"
    /\ linRun = 0
    /\ linLast = LinNoEvent
    /\ pca = PcaState0
    /\ gd = GdState0
    /\ ql = QlState0
    /\ qlLast = QlNoEvent

SpecAccuracy == DtAccuracyInit /\ [][CallTrainingAccuracy]_vars

=============================================================================
